---- MODULE Spec2Model ----
(***************************************************************************)
(* hatebu-audio: the audio-segment ordering and assembly engine.           *)
(*                                                                         *)
(*   - PlaylistModel      (src/src/models/PlaylistModel.ts)                *)
(*   - AudioFileModel     (src/src/models/AudioFileModel.ts)               *)
(*   - MergedAudioFileModel (src/src/models/NarrationModel.ts)             *)
(*   - DefaultAudioMergeService                                            *)
(*                        (src/src/services/audio-merge/AudioMergeService.ts) *)
(*                                                                         *)
(* The SQLite tables are sets of rows; an AUTOINCREMENT key is a counter.  *)
(* CURRENT_TIMESTAMP is the logical clock `clock` (one-second resolution:  *)
(* several rows may carry the same timestamp).  An assembly invocation is  *)
(* a small process (`inv`) that concatenates, then records; every other    *)
(* handler is one atomic action.  `last` is the value the most recently    *)
(* completed call returned, together with the arguments it was given.      *)
(* Where two calls are in flight at once, `inv` and `last` belong to the   *)
(* call that is running and `pending` holds those of the call that waits.  *)
(***************************************************************************)
EXTENDS Integers, Sequences, FiniteSets, TLC

\* ------------------------------------------------------------------ bounds
\* playlists rows ever inserted (AUTOINCREMENT never reuses an id)
MaxPlaylists == 2
\* playlist_items rows ever inserted
MaxItems == 3
\* distinct audio_file_id values used in playlist items
MaxItemAudio == 2
\* audio_files rows ever inserted
MaxAudioFiles == 3
\* merged_audio_files rows ever inserted
MaxMerged == 4
\* output paths ever derived (one per concatenation attempt)
MaxOutputs == 4
\* largest value of the clock
MaxClock == 1
\* longest explicit id list handed to mergeAndSaveAudioFiles
MaxIdList == 2
\* playlists and playlist items a caller creates between assembly operations
AssemblyPlaylists == 1
AssemblyItems == 2
\* concatenation attempts where assembly runs among many other operations
MergeAttempts == 2
\* segments and playlist items where the ledger outgrows the findAll limit
LedgerSegments == 2
LedgerItems == 1
\* concatenation attempts of successive mergeUnprocessedAudioFiles runs
RunAttempts == 4

\* ------------------------------------------------------- program constants
\* mergeUnprocessedAudioFiles: findAll(1000, 0), scaled down
FindAllLimit == 2
\* mergeUnprocessedAudioFilesWithIntro: findAll(100000, 0), scaled down
IntroFindAllLimit == 4
\* mergeAudioFiles: silenceDuration = 1.3 (tenths of a second)
DefaultSilence == 13
\* mergeAudioFilesWithIntro: silenceDuration = 2.5 (tenths of a second)
IntroSilence == 25

PlaylistNames == {"a", "b"}
PlaylistIds == 1..MaxPlaylists
ItemIds == 1..MaxItems
AudioIds == 1..MaxAudioFiles
\* audio_file_id values handed to the playlist operations
ItemAudioIds == 1..MaxItemAudio
\* position values a caller puts in the PlaylistItem it hands to addPlaylistItem
CallerPositions == {0, 2}

VARIABLES
    playlists,          \* table playlists: rows [id, name]
    playlist_items,     \* table playlist_items: rows [id, playlist_id, audio_file_id, position]
    nextPlaylistId,     \* AUTOINCREMENT of playlists
    nextItemId,         \* AUTOINCREMENT of playlist_items
    audio_files,        \* table audio_files: rows [id, generated_at]
    nextAudioId,        \* AUTOINCREMENT of audio_files
    files,              \* input paths that exist on disk
    merged_audio_files, \* table merged_audio_files: rows [id, source_files, file_path, created_at]
    nextMergedId,       \* AUTOINCREMENT of merged_audio_files
    outFiles,           \* output files on disk: rows [path, state, timeline]
    nextOut,            \* next output path (name + millisecond timestamp)
    clock,              \* CURRENT_TIMESTAMP
    inv,                \* the assembly invocation in progress
    last,               \* what the last completed call was given and returned
    pending             \* a second call in flight, parked at an await: its inv and last

plVars == <<playlists, playlist_items, nextPlaylistId, nextItemId>>
segVars == <<audio_files, nextAudioId, files>>
ledgerVars == <<merged_audio_files, nextMergedId>>
diskVars == <<outFiles, nextOut>>
vars == <<playlists, playlist_items, nextPlaylistId, nextItemId, audio_files,
          nextAudioId, files, merged_audio_files, nextMergedId, outFiles,
          nextOut, clock, inv, last, pending>>

\* ----------------------------------------------------------------- helpers
Max(S) == CHOOSE x \in S : \A y \in S : y <= x

Min(S) == CHOOSE x \in S : \A y \in S : x <= y

Range(s) == {s[i] : i \in 1..Len(s)}

\* the record a completed call leaves in `last`
Returned(op, status, id, pl, af, position, from, ids) ==
    [op |-> op, status |-> status, id |-> id, playlist_id |-> pl,
     audio_file_id |-> af, position |-> position, from |-> from, ids |-> ids]

Idle == [pc |-> "idle", op |-> "none", ids |-> <<>>, inputFiles |-> <<>>,
         outputPath |-> 0, silence |-> 0, ledger0 |-> {}]

\* ------------------------------------------------------- playlist_items SQL
\* SELECT * FROM playlist_items WHERE playlist_id = ?
ItemsOf(items, pl) == {i \in items : i.playlist_id = pl}

\* SELECT MAX(position) ... WHERE playlist_id = ?   (maxPositionResult?.max_position || 0)
MaxPositionOf(items, pl) ==
    IF ItemsOf(items, pl) = {} THEN 0
    ELSE Max({i.position : i \in ItemsOf(items, pl)})

\* SELECT * FROM playlist_items WHERE id = ?
ItemById(items, id) == {i \in items : i.id = id}

\* SELECT * FROM playlist_items WHERE playlist_id = ? AND audio_file_id = ?
FindPlaylistItem(items, pl, af) ==
    {i \in items : i.playlist_id = pl /\ i.audio_file_id = af}

\* SELECT * FROM playlist_items WHERE playlist_id = ? ORDER BY position
RECURSIVE SortByPosition(_)
SortByPosition(S) ==
    IF S = {} THEN <<>>
    ELSE LET m == CHOOSE i \in S : \A j \in S :
                      \/ i.position < j.position
                      \/ (i.position = j.position /\ i.id <= j.id)
         IN  <<m>> \o SortByPosition(S \ {m})

FindPlaylistItems(items, pl) == SortByPosition(ItemsOf(items, pl))

\* the position addPlaylistItem stores: max + 1, the caller's value is not read
NoAppendPosition(items, playlistItem) == playlistItem.position

AppendPosition(items, playlistItem) ==
    MaxPositionOf(items, playlistItem.playlist_id) + 1

\* INSERT INTO playlist_items (playlist_id, audio_file_id, position)
AddPlaylistItemRows(items, newId, playlistItem) ==
    items \cup {[id |-> newId,
                 playlist_id |-> playlistItem.playlist_id,
                 audio_file_id |-> playlistItem.audio_file_id,
                 position |-> AppendPosition(items, playlistItem)]}

\* removeItem without the renumbering UPDATE
NoShiftRemoveItemRows(items, item) == {i \in items : i.id # item.id}

\* removeItem with the playlist_id condition of the renumbering UPDATE dropped
AnyPlaylistRemoveItemRows(items, item) ==
    {IF i.position > item.position
        THEN [i EXCEPT !.position = @ - 1]
        ELSE i : i \in {j \in items : j.id # item.id}}

\* DELETE ... WHERE id = ?; UPDATE ... SET position = position - 1
\*   WHERE playlist_id = ? AND position > ?      (one transaction)
RemoveItemRows(items, item) ==
    {IF i.playlist_id = item.playlist_id /\ i.position > item.position
        THEN [i EXCEPT !.position = @ - 1]
        ELSE i : i \in {j \in items : j.id # item.id}}

\* updatePlaylistItemPosition without the range adjustment
NoClampPosition(items, item, newPosition) == newPosition

\* newPosition after the range adjustment of updatePlaylistItemPosition
ClampPosition(items, item, newPosition) ==
    LET maxPosition == MaxPositionOf(items, item.playlist_id)
    IN  IF newPosition < 1 THEN 1
        ELSE IF newPosition > maxPosition THEN maxPosition
        ELSE newPosition

\* the shifting UPDATE with the lower end of the range excluded
OffByOneShiftRows(items, item, newPosition) ==
    IF newPosition < item.position
    THEN {IF i.playlist_id = item.playlist_id /\ i.position > newPosition
             /\ i.position < item.position
          THEN [i EXCEPT !.position = @ + 1] ELSE i : i \in items}
    ELSE {IF i.playlist_id = item.playlist_id /\ i.position > item.position
             /\ i.position < newPosition
          THEN [i EXCEPT !.position = @ - 1] ELSE i : i \in items}

\* the first UPDATE of the transaction: shift the items between the two positions
ShiftRows(items, item, newPosition) ==
    IF newPosition < item.position
    THEN {IF i.playlist_id = item.playlist_id /\ i.position >= newPosition
             /\ i.position < item.position
          THEN [i EXCEPT !.position = @ + 1] ELSE i : i \in items}
    ELSE {IF i.playlist_id = item.playlist_id /\ i.position > item.position
             /\ i.position <= newPosition
          THEN [i EXCEPT !.position = @ - 1] ELSE i : i \in items}

\* updatePlaylistItemPosition on an item that exists
UpdatePositionRows(items, item, newPosition) ==
    LET np == ClampPosition(items, item, newPosition)
    IN  IF np = item.position THEN items
        ELSE {IF i.id = item.id THEN [i EXCEPT !.position = np] ELSE i :
                 i \in ShiftRows(items, item, np)}

\* ------------------------------------------------------------ file paths
\* audio_files.file_path of the segment with this id
SegPath(id) == <<"seg", id>>

\* path.join(audioOutputDir, "radio_intro.mp3")
IntroPath == <<"radio_intro", 0>>

\* path.join(audioOutputDir, "radio_outro.mp3")
OutroPath == <<"radio_outro", 0>>

\* ------------------------------------------------- source_files (JSON text)
Digits == <<"0", "1", "2", "3", "4", "5", "6", "7", "8", "9">>

RECURSIVE JoinIds(_)
JoinIds(ids) ==
    IF ids = <<>> THEN <<>>
    ELSE IF Len(ids) = 1 THEN <<Digits[ids[1] + 1]>>
    ELSE <<Digits[ids[1] + 1], ",">> \o JoinIds(Tail(ids))

\* the ids with repetitions dropped, in first-occurrence order
RECURSIVE Distinct(_)
Distinct(ids) ==
    IF ids = <<>> THEN <<>>
    ELSE <<Head(ids)>> \o Distinct(SelectSeq(Tail(ids), LAMBDA x : x # Head(ids)))

\* a stringify that stores each id once
DedupJsonStringify(ids) == <<"[">> \o JoinIds(Distinct(ids)) \o <<"]">>

\* JSON.stringify(mergedAudioFile.source_files), ids below 10
JsonStringify(ids) == <<"[">> \o JoinIds(ids) \o <<"]">>

IsDigit(c) == \E n \in 1..10 : Digits[n] = c

\* JSON.parse(mergedAudioFile.source_files)
JsonParse(text) ==
    LET ds == SelectSeq(text, IsDigit)
    IN  [k \in 1..Len(ds) |-> (CHOOSE n \in 1..10 : Digits[n] = ds[k]) - 1]

\* ----------------------------------------------------------- findAll (SQL)
GeneratedAt == "generated_at"

CreatedAt == "created_at"

\* the orders ORDER BY <key> DESC may return the rows in: rows with equal
\* timestamps come in any order
DescOrders(rows, key) ==
    {s \in [1..Cardinality(rows) -> rows] :
        \A i, j \in 1..Cardinality(rows) :
            i < j => (s[i] # s[j] /\ s[i][key] >= s[j][key])}

\* ... LIMIT ? OFFSET 0
Limit(s, limit) == SubSeq(s, 1, IF Len(s) < limit THEN Len(s) ELSE limit)

\* AudioFileModel.findAll(limit, 0): the possible results
AudioFindAll(rows, limit) == {Limit(s, limit) : s \in DescOrders(rows, GeneratedAt)}

\* MergedAudioFileModel.findAll(limit, 0): the possible results, source_files parsed
MergedFindAll(rows, limit) ==
    {[k \in 1..Len(Limit(s, limit)) |->
         [Limit(s, limit)[k] EXCEPT !.source_files = JsonParse(@)]] :
       s \in DescOrders(rows, CreatedAt)}

\* AudioFileModel.findById
AudioById(rows, id) == {r \in rows : r.id = id}

\* ----------------------------------------------------------------- resolver
\* the set mergedAudioFileIds built from the rows findAll returned
MergedAudioFileIds(mergedAudioFiles) ==
    UNION {Range(mergedAudioFiles[k].source_files) : k \in 1..Len(mergedAudioFiles)}

\* a filter that also leaves out the segments a call in flight has resolved
NotClaimed(file, mergedIds) ==
    file.id \notin mergedIds /\ file.id \notin Range(pending.inv.ids)

\* file.id !== undefined && !mergedAudioFileIds.has(file.id)
IsUnprocessed(file, mergedIds) == file.id \notin mergedIds

\* unprocessedAudioFileIds: allAudioFiles.filter(...).map(file => file.id)
UnprocessedAudioFileIds(mergedAudioFiles, allAudioFiles) ==
    LET mergedIds == MergedAudioFileIds(mergedAudioFiles)
        keep == SelectSeq(allAudioFiles, LAMBDA file : IsUnprocessed(file, mergedIds))
    IN  [k \in 1..Len(keep) |-> keep[k].id]

\* audioFiles.sort((a, b) => a.id - b.id)
RECURSIVE SortAscending(_)
SortAscending(ids) ==
    IF ids = <<>> THEN <<>>
    ELSE LET m == Min(Range(ids))
         IN  SelectSeq(ids, LAMBDA x : x = m) \o
             SortAscending(SelectSeq(ids, LAMBDA x : x # m))

\* a lookup loop that checks the first id only
HeadMissing(rows, ids) ==
    IF ids # <<>> /\ AudioById(rows, Head(ids)) = {} THEN Head(ids) ELSE 0

\* the first id of the list for which findById returns nothing, 0 if none
RECURSIVE FirstMissing(_, _)
FirstMissing(rows, ids) ==
    IF ids = <<>> THEN 0
    ELSE IF AudioById(rows, Head(ids)) = {} THEN Head(ids)
    ELSE FirstMissing(rows, Tail(ids))

\* ------------------------------------------------------------ filter graph
\* the pad_dur of input `index` (0-based) among n inputs
\* a pad that also follows the last input
TrailingPadDur(index, n, silenceDuration) == silenceDuration

PadDur(index, n, silenceDuration) ==
    IF index < n - 1 THEN silenceDuration ELSE 0

\* what ffmpeg writes for inputFiles: the inputs in order, each followed by its pad
FilterGraph(inputFiles, silenceDuration) ==
    [k \in 1..Len(inputFiles) |->
        [file |-> inputFiles[k],
         pad |-> IF Len(inputFiles) > 1
                 THEN PadDur(k - 1, Len(inputFiles), silenceDuration) ELSE 0]]

\* [introFile, ...inputFiles, outroFile]
AllFiles(inputFiles, introFile, outroFile) == <<introFile>> \o inputFiles \o <<outroFile>>

\* ------------------------------------------------------------------- Init
Init ==
    /\ playlists = {}
    /\ playlist_items = {}
    /\ nextPlaylistId = 1
    /\ nextItemId = 1
    /\ audio_files = {}
    /\ nextAudioId = 1
    /\ files = {}
    /\ merged_audio_files = {}
    /\ nextMergedId = 1
    /\ outFiles = {}
    /\ nextOut = 1
    /\ clock = 0
    /\ inv = Idle
    /\ last = Returned("none", "none", 0, 0, 0, 0, 0, <<>>)
    /\ pending = [inv |-> Idle, last |-> Returned("none", "none", 0, 0, 0, 0, 0, <<>>)]

\* ---------------------------------------------------- PlaylistModel actions
\* PlaylistModel.create
Create(name) ==
    /\ inv.pc = "idle"
    /\ nextPlaylistId <= MaxPlaylists
    /\ playlists' = playlists \cup {[id |-> nextPlaylistId, name |-> name]}
    /\ nextPlaylistId' = nextPlaylistId + 1
    /\ last' = Returned("create", "id", nextPlaylistId, nextPlaylistId, 0, 0, 0, <<>>)
    /\ UNCHANGED <<pending, playlist_items, nextItemId, segVars, ledgerVars, diskVars, clock, inv>>

\* PlaylistModel.delete
Delete(id) ==
    /\ inv.pc = "idle"
    /\ playlist_items' = {i \in playlist_items : i.playlist_id # id}
    /\ playlists' = {p \in playlists : p.id # id}
    /\ last' = Returned("delete", "true", id, id, 0, 0, 0, <<>>)
    /\ UNCHANGED <<pending, nextPlaylistId, nextItemId, segVars, ledgerVars, diskVars, clock, inv>>

\* PlaylistModel.addPlaylistItem
AddPlaylistItem(playlistItem) ==
    /\ inv.pc = "idle"
    /\ nextItemId <= MaxItems
    /\ playlist_items' = AddPlaylistItemRows(playlist_items, nextItemId, playlistItem)
    /\ nextItemId' = nextItemId + 1
    /\ last' = Returned("addPlaylistItem", "id", nextItemId, playlistItem.playlist_id,
                        playlistItem.audio_file_id, playlistItem.position, 0, <<>>)
    /\ UNCHANGED <<pending, playlists, nextPlaylistId, segVars, ledgerVars, diskVars, clock, inv>>

\* PlaylistModel.removeItem
RemoveItem(id) ==
    /\ inv.pc = "idle"
    /\ IF ItemById(playlist_items, id) = {}
       THEN /\ playlist_items' = playlist_items
            /\ last' = Returned("removeItem", "false", id, 0, 0, 0, 0, <<>>)
       ELSE \E item \in ItemById(playlist_items, id) :
            /\ playlist_items' = RemoveItemRows(playlist_items, item)
            /\ last' = Returned("removeItem", "true", id, item.playlist_id,
                                item.audio_file_id, 0, item.position, <<>>)
    /\ UNCHANGED <<pending, playlists, nextPlaylistId, nextItemId, segVars, ledgerVars,
                   diskVars, clock, inv>>

\* PlaylistModel.removePlaylistItem
RemovePlaylistItem(pl, af) ==
    /\ inv.pc = "idle"
    /\ IF FindPlaylistItem(playlist_items, pl, af) = {}
       THEN /\ playlist_items' = playlist_items
            /\ last' = Returned("removePlaylistItem", "false", 0, pl, af, 0, 0, <<>>)
       ELSE \E item \in FindPlaylistItem(playlist_items, pl, af) :
            /\ playlist_items' = RemoveItemRows(playlist_items, item)
            /\ last' = Returned("removePlaylistItem", "true", item.id, pl, af, 0,
                                item.position, <<>>)
    /\ UNCHANGED <<pending, playlists, nextPlaylistId, nextItemId, segVars, ledgerVars,
                   diskVars, clock, inv>>

\* PlaylistModel.updatePlaylistItemPosition
UpdatePlaylistItemPosition(id, newPosition) ==
    /\ inv.pc = "idle"
    /\ IF ItemById(playlist_items, id) = {}
       THEN /\ playlist_items' = playlist_items
            /\ last' = Returned("updatePlaylistItemPosition", "false", id, 0, 0,
                                newPosition, 0, <<>>)
       ELSE \E item \in ItemById(playlist_items, id) :
            /\ playlist_items' = UpdatePositionRows(playlist_items, item, newPosition)
            /\ last' = Returned("updatePlaylistItemPosition", "true", id,
                                item.playlist_id, item.audio_file_id, newPosition,
                                item.position, <<>>)
    /\ UNCHANGED <<pending, playlists, nextPlaylistId, nextItemId, segVars, ledgerVars,
                   diskVars, clock, inv>>

\* the PlaylistModel operations, one call at a time
PlaylistNext ==
    \/ \E name \in PlaylistNames : Create(name)
    \/ \E id \in PlaylistIds : Delete(id)
    \/ \E pl \in PlaylistIds, af \in ItemAudioIds, pos \in CallerPositions :
          AddPlaylistItem([playlist_id |-> pl, audio_file_id |-> af, position |-> pos])
    \/ \E id \in ItemIds : RemoveItem(id)
    \/ \E pl \in PlaylistIds, af \in ItemAudioIds : RemovePlaylistItem(pl, af)
    \/ \E id \in ItemIds, newPosition \in 0..(MaxItems + 1) :
          UpdatePlaylistItemPosition(id, newPosition)

PlaylistSpec == Init /\ [][PlaylistNext]_vars

\* --------------------------------------------- DatabaseService.transaction
\* one db.run(sql, params) of a transaction callback
Statement(sql, id, pl, lo, hi) == [sql |-> sql, id |-> id, pl |-> pl, lo |-> lo, hi |-> hi]

\* DELETE FROM playlist_items WHERE id = ?
DeleteItem(id) == Statement("DELETE item", id, 0, 0, 0)

\* a renumbering UPDATE that matches no row
NoDecrement(pl, position) ==
    Statement("UPDATE position - 1", 0, pl, MaxItems + 1, MaxItems + 1)

\* UPDATE playlist_items SET position = position - 1 WHERE playlist_id = ? AND position > ?
Decrement(pl, position) == Statement("UPDATE position - 1", 0, pl, position, MaxItems + 1)

\* the first UPDATE of updatePlaylistItemPosition, up or down
Shift(item, newPosition) ==
    IF newPosition < item.position
    THEN Statement("UPDATE position + 1", 0, item.playlist_id, newPosition, item.position)
    ELSE Statement("UPDATE position - 1", 0, item.playlist_id, item.position, newPosition)

\* UPDATE playlist_items SET position = ? WHERE id = ?
SetPosition(id, position) == Statement("UPDATE position", id, 0, position, 0)

\* DELETE FROM playlist_items WHERE playlist_id = ?
DeleteItemsOf(pl) == Statement("DELETE items of", 0, pl, 0, 0)

\* DELETE FROM playlists WHERE id = ?
DeletePlaylistRow(id) == Statement("DELETE playlist", id, 0, 0, 0)

\* the tables <<playlists, playlist_items>> after the statement has run
Exec(stmt, tables) ==
    LET pls == tables[1]
        items == tables[2]
    IN  CASE stmt.sql = "DELETE item" ->
                <<pls, {i \in items : i.id # stmt.id}>>
          [] stmt.sql = "UPDATE position - 1" ->
                <<pls, {IF i.playlist_id = stmt.pl /\ i.position > stmt.lo
                           /\ i.position <= stmt.hi
                        THEN [i EXCEPT !.position = @ - 1] ELSE i : i \in items}>>
          [] stmt.sql = "UPDATE position + 1" ->
                <<pls, {IF i.playlist_id = stmt.pl /\ i.position >= stmt.lo
                           /\ i.position < stmt.hi
                        THEN [i EXCEPT !.position = @ + 1] ELSE i : i \in items}>>
          [] stmt.sql = "UPDATE position" ->
                <<pls, {IF i.id = stmt.id THEN [i EXCEPT !.position = stmt.lo] ELSE i :
                           i \in items}>>
          [] stmt.sql = "DELETE items of" ->
                <<pls, {i \in items : i.playlist_id # stmt.pl}>>
          [] stmt.sql = "DELETE playlist" ->
                <<{q \in pls : q.id # stmt.id}, items>>

\* the PlaylistService methods: their catch block turns a thrown error into a result
ServiceOps == {"createPlaylist", "updatePlaylist", "deletePlaylist",
               "addAudioFileToPlaylist", "removeAudioFileFromPlaylist",
               "reorderPlaylistItem"}

\* what the caller of `op` sees when the database throws
Thrown(op) == IF op \in ServiceOps THEN "error" ELSE "threw"

\* a catch block that commits what the callback wrote before it threw
CommitOnError(snapshot, current) == current

\* ROLLBACK: the tables are what they were at BEGIN TRANSACTION
Rollback(snapshot, current) == snapshot

\* db.transaction(callback): BEGIN TRANSACTION, or the error it throws
BeginTransaction(statements, ret) ==
    \/ /\ inv' = [pc |-> "transaction", op |-> ret.op, ids |-> <<>>, inputFiles |-> <<>>,
                   outputPath |-> 0, silence |-> 0, ledger0 |-> {},
                   statements |-> statements, executed |-> 0,
                   snapshot |-> <<playlists, playlist_items>>, ret |-> ret]
       /\ last' = [ret EXCEPT !.status = "running"]
       /\ UNCHANGED <<pending, plVars, segVars, ledgerVars, diskVars, clock>>
    \/ /\ last' = [ret EXCEPT !.status = Thrown(ret.op)]
       /\ UNCHANGED <<pending, plVars, segVars, ledgerVars, diskVars, clock, inv>>

\* the catch block of transaction: ROLLBACK and rethrow
RollbackAndThrow ==
    /\ playlists' = Rollback(inv.snapshot, <<playlists, playlist_items>>)[1]
    /\ playlist_items' = Rollback(inv.snapshot, <<playlists, playlist_items>>)[2]
    /\ inv' = Idle
    /\ last' = [inv.ret EXCEPT !.status = Thrown(inv.ret.op), !.position = inv.executed]
    /\ UNCHANGED <<pending, nextPlaylistId, nextItemId, segVars, ledgerVars, diskVars, clock>>

\* the next db.run of the callback resolves, or rejects
ExecStatement ==
    /\ inv.pc = "transaction"
    /\ inv.statements # <<>>
    /\ \/ /\ playlists' = Exec(Head(inv.statements), <<playlists, playlist_items>>)[1]
          /\ playlist_items' = Exec(Head(inv.statements), <<playlists, playlist_items>>)[2]
          /\ inv' = [inv EXCEPT !.statements = Tail(@), !.executed = @ + 1]
          /\ UNCHANGED <<pending, nextPlaylistId, nextItemId, segVars, ledgerVars, diskVars,
                         clock, last>>
       \/ RollbackAndThrow

\* the callback has returned: COMMIT resolves, or rejects
Commit ==
    /\ inv.pc = "transaction"
    /\ inv.statements = <<>>
    /\ \/ /\ inv' = Idle
          /\ last' = inv.ret
          /\ UNCHANGED <<pending, plVars, segVars, ledgerVars, diskVars, clock>>
       \/ RollbackAndThrow

\* PlaylistModel.removeItem, statement by statement
RemoveItemInTransaction(id) ==
    /\ inv.pc = "idle"
    /\ IF ItemById(playlist_items, id) = {}
       THEN /\ last' = Returned("removeItem", "false", id, 0, 0, 0, 0, <<>>)
            /\ UNCHANGED <<pending, plVars, segVars, ledgerVars, diskVars, clock, inv>>
       ELSE \E item \in ItemById(playlist_items, id) :
            BeginTransaction(<<DeleteItem(id), Decrement(item.playlist_id, item.position)>>,
                             Returned("removeItem", "true", id, item.playlist_id,
                                      item.audio_file_id, 0, item.position, <<>>))

\* PlaylistModel.removePlaylistItem, statement by statement
RemovePlaylistItemInTransaction(pl, af) ==
    /\ inv.pc = "idle"
    /\ IF FindPlaylistItem(playlist_items, pl, af) = {}
       THEN /\ last' = Returned("removePlaylistItem", "false", 0, pl, af, 0, 0, <<>>)
            /\ UNCHANGED <<pending, plVars, segVars, ledgerVars, diskVars, clock, inv>>
       ELSE \E item \in FindPlaylistItem(playlist_items, pl, af) :
            BeginTransaction(<<DeleteItem(item.id), Decrement(pl, item.position)>>,
                             Returned("removePlaylistItem", "true", item.id, pl, af, 0,
                                      item.position, <<>>))

\* PlaylistModel.updatePlaylistItemPosition, statement by statement
UpdatePlaylistItemPositionInTransaction(id, newPosition) ==
    /\ inv.pc = "idle"
    /\ IF ItemById(playlist_items, id) = {}
       THEN /\ last' = Returned("updatePlaylistItemPosition", "false", id, 0, 0,
                                newPosition, 0, <<>>)
            /\ UNCHANGED <<pending, plVars, segVars, ledgerVars, diskVars, clock, inv>>
       ELSE \E item \in ItemById(playlist_items, id) :
            LET np == ClampPosition(playlist_items, item, newPosition)
                ret == Returned("updatePlaylistItemPosition", "true", id,
                                item.playlist_id, item.audio_file_id, newPosition,
                                item.position, <<>>)
            IN  IF np = item.position
                THEN /\ last' = ret
                     /\ UNCHANGED <<pending, plVars, segVars, ledgerVars, diskVars, clock, inv>>
                ELSE BeginTransaction(<<Shift(item, np), SetPosition(id, np)>>, ret)

\* PlaylistModel.delete, statement by statement
DeleteInTransaction(id) ==
    /\ inv.pc = "idle"
    /\ BeginTransaction(<<DeleteItemsOf(id), DeletePlaylistRow(id)>>,
                        Returned("delete", "true", id, id, 0, 0, 0, <<>>))

\* the PlaylistModel operations with every statement able to fail
TransactionNext ==
    \/ \E name \in PlaylistNames : Create(name)
    \/ \E pl \in PlaylistIds, af \in ItemAudioIds :
          AddPlaylistItem([playlist_id |-> pl, audio_file_id |-> af, position |-> 0])
    \/ \E id \in ItemIds : RemoveItemInTransaction(id)
    \/ \E pl \in PlaylistIds, af \in ItemAudioIds : RemovePlaylistItemInTransaction(pl, af)
    \/ \E id \in ItemIds, newPosition \in 0..(MaxItems + 1) :
          UpdatePlaylistItemPositionInTransaction(id, newPosition)
    \/ \E id \in PlaylistIds : DeleteInTransaction(id)
    \/ ExecStatement
    \/ Commit

TransactionSpec == Init /\ [][TransactionNext]_vars

\* ------------------------------------------------- segment store and clock
\* AudioFileModel.create; the synthesis step wrote (or failed to keep) the file
CreateAudioFile(onDisk) ==
    /\ inv.pc = "idle"
    /\ nextAudioId <= MaxAudioFiles
    /\ audio_files' = audio_files \cup {[id |-> nextAudioId, generated_at |-> clock]}
    /\ files' = IF onDisk THEN files \cup {SegPath(nextAudioId)} ELSE files
    /\ nextAudioId' = nextAudioId + 1
    /\ last' = Returned("createAudioFile", "id", nextAudioId, 0, nextAudioId, 0, 0, <<>>)
    /\ UNCHANGED <<pending, plVars, ledgerVars, diskVars, clock, inv>>

\* the workflow synthesizes radio_intro.mp3 / radio_outro.mp3 when absent
SynthesizeAsset(path) ==
    /\ inv.pc = "idle"
    /\ path \notin files
    /\ files' = files \cup {path}
    /\ last' = Returned("synthesizeSpeech", "ok", 0, 0, 0, 0, 0, <<>>)
    /\ UNCHANGED <<pending, plVars, audio_files, nextAudioId, ledgerVars, diskVars, clock, inv>>

\* a second passes: CURRENT_TIMESTAMP advances
Tick ==
    /\ clock < MaxClock
    /\ clock' = clock + 1
    /\ UNCHANGED <<pending, plVars, segVars, ledgerVars, diskVars, inv, last>>

\* ------------------------------------------------ DefaultAudioMergeService
\* the call has returned `status` before any file was written
ReturnEarly(op, status, id, ids) ==
    /\ inv' = Idle
    /\ last' = Returned(op, status, id, 0, 0, 0, 0, ids)
    /\ UNCHANGED <<pending, plVars, segVars, ledgerVars, diskVars, clock>>

\* the call has derived its output path and is about to run mergeAudioFiles
StartConcatenation(op, ids, inputFiles, silenceDuration) ==
    /\ nextOut <= MaxOutputs
    /\ nextMergedId <= MaxMerged
    /\ inv' = [pc |-> "concatenating", op |-> op, ids |-> ids,
               inputFiles |-> inputFiles, outputPath |-> nextOut,
               silence |-> silenceDuration, ledger0 |-> merged_audio_files]
    /\ nextOut' = nextOut + 1
    /\ last' = Returned(op, "running", 0, 0, 0, 0, 0, ids)
    /\ UNCHANGED <<pending, plVars, segVars, ledgerVars, outFiles, clock>>

\* mergeAndSaveAudioFiles up to its call of mergeAudioFiles
BeginMergeAndSave(op, audioFileIds) ==
    IF audioFileIds = <<>>
    THEN ReturnEarly(op, "error", 0, audioFileIds)
    ELSE IF FirstMissing(audio_files, audioFileIds) # 0
    THEN ReturnEarly(op, "error", FirstMissing(audio_files, audioFileIds), audioFileIds)
    ELSE StartConcatenation(op, audioFileIds,
                            [k \in 1..Len(audioFileIds) |-> SegPath(audioFileIds[k])],
                            DefaultSilence)

\* mergeAndSaveAudioFiles(audioFileIds, name)
MergeAndSaveAudioFiles(audioFileIds) ==
    /\ inv.pc = "idle"
    /\ BeginMergeAndSave("mergeAndSaveAudioFiles", audioFileIds)

\* mergeUnprocessedAudioFiles(name)
MergeUnprocessedAudioFiles ==
    /\ inv.pc = "idle"
    /\ \E mergedAudioFiles \in MergedFindAll(merged_audio_files, FindAllLimit),
          allAudioFiles \in AudioFindAll(audio_files, FindAllLimit) :
          LET unprocessedAudioFileIds ==
                  UnprocessedAudioFileIds(mergedAudioFiles, allAudioFiles)
          IN  IF unprocessedAudioFileIds = <<>>
              THEN ReturnEarly("mergeUnprocessedAudioFiles", "skipped", 0, <<>>)
              ELSE BeginMergeAndSave("mergeUnprocessedAudioFiles", unprocessedAudioFileIds)

\* an asset check that fails only when both fixed files are absent
BothAssetsMissing(onDisk) == IntroPath \notin onDisk /\ OutroPath \notin onDisk

\* !fs.existsSync(introFilePath) || !fs.existsSync(outroFilePath)
AssetMissing(onDisk) == IntroPath \notin onDisk \/ OutroPath \notin onDisk

\* mergeUnprocessedAudioFilesWithIntro(name)
MergeUnprocessedAudioFilesWithIntro ==
    /\ inv.pc = "idle"
    /\ IF AssetMissing(files)
       THEN ReturnEarly("mergeUnprocessedAudioFilesWithIntro", "error", 0, <<>>)
       ELSE \E mergedAudioFiles \in MergedFindAll(merged_audio_files, IntroFindAllLimit),
               allAudioFiles \in AudioFindAll(audio_files, IntroFindAllLimit) :
            LET unprocessedAudioFileIds ==
                    UnprocessedAudioFileIds(mergedAudioFiles, allAudioFiles)
                sorted == SortAscending(unprocessedAudioFileIds)
                inputFiles == [k \in 1..Len(sorted) |-> SegPath(sorted[k])]
            IN  IF unprocessedAudioFileIds = <<>>
                THEN ReturnEarly("mergeUnprocessedAudioFilesWithIntro", "skipped", 0, <<>>)
                ELSE IF FirstMissing(audio_files, unprocessedAudioFileIds) # 0
                THEN ReturnEarly("mergeUnprocessedAudioFilesWithIntro", "error",
                                 FirstMissing(audio_files, unprocessedAudioFileIds),
                                 unprocessedAudioFileIds)
                ELSE StartConcatenation("mergeUnprocessedAudioFilesWithIntro",
                                        unprocessedAudioFileIds,
                                        AllFiles(inputFiles, IntroPath, OutroPath),
                                        IntroSilence)

\* a getAudioFileIds that orders by segment identifier
IdOrderAudioFileIds(items, pl) ==
    SortAscending([k \in 1..Len(FindPlaylistItems(items, pl)) |->
                      FindPlaylistItems(items, pl)[k].audio_file_id])

\* SELECT audio_file_id FROM playlist_items WHERE playlist_id = ? ORDER BY position
GetAudioFileIds(items, pl) ==
    [k \in 1..Len(FindPlaylistItems(items, pl)) |->
        FindPlaylistItems(items, pl)[k].audio_file_id]

\* mergePlaylist returns `status` for playlist `playlistId` before resolving a segment
ReturnForPlaylist(status, playlistId) ==
    /\ inv' = Idle
    /\ last' = Returned("mergePlaylist", status, 0, playlistId, 0, 0, 0, <<>>)
    /\ UNCHANGED <<pending, plVars, segVars, ledgerVars, diskVars, clock>>

\* a mergePlaylist without the audioFileIds.length === 0 branch
UncheckedMergePlaylist(playlistId) ==
    /\ inv.pc = "idle"
    /\ IF \A p \in playlists : p.id # playlistId
       THEN ReturnForPlaylist("error", playlistId)
       ELSE LET audioFileIds == GetAudioFileIds(playlist_items, playlistId)
            IN  IF audioFileIds = <<>>
                THEN ReturnForPlaylist("error", playlistId)
                ELSE BeginMergeAndSave("mergePlaylist", audioFileIds)

\* mergePlaylist(playlistId, name)
MergePlaylist(playlistId) ==
    /\ inv.pc = "idle"
    /\ IF \A p \in playlists : p.id # playlistId
       THEN ReturnForPlaylist("error", playlistId)
       ELSE LET audioFileIds == GetAudioFileIds(playlist_items, playlistId)
            IN  IF audioFileIds = <<>>
                THEN ReturnForPlaylist("skipped", playlistId)
                ELSE BeginMergeAndSave("mergePlaylist", audioFileIds)

\* the invocation returns an error after mergeAudioFiles threw
FailConcatenation(written) ==
    /\ outFiles' = outFiles \cup written
    /\ inv' = Idle
    /\ last' = Returned(inv.op, "error", 0, 0, 0, 0, 0, inv.ids)
    /\ UNCHANGED <<pending, plVars, segVars, ledgerVars, nextOut, clock>>

\* a mergeAudioFiles whose ffmpeg "error" handler resolves instead of rejecting
SwallowingMergeAudioFiles ==
    /\ inv.pc = "concatenating"
    /\ \E written \in {{}, {[path |-> inv.outputPath, state |-> "partial",
                              timeline |-> <<>>]}} :
          /\ outFiles' = outFiles \cup written
          /\ inv' = [inv EXCEPT !.pc = "recording"]
          /\ last' = Returned(inv.op, "running", 0, 0, 0, 0, 0, inv.ids)
          /\ UNCHANGED <<pending, plVars, segVars, ledgerVars, nextOut, clock>>

\* path.dirname(outputFile), made with mkdirAsync when it does not exist
OutputDir == [path |-> 0, state |-> "directory", timeline |-> <<>>]

\* the transcoder ran on inv.inputFiles: it ends, or it stops with an error and
\* leaves nothing or a partial file at the output path
RunTranscoder ==
    \/ /\ outFiles' = outFiles \cup
              {OutputDir, [path |-> inv.outputPath, state |-> "complete",
                           timeline |-> FilterGraph(inv.inputFiles, inv.silence)]}
       /\ inv' = [inv EXCEPT !.pc = "recording"]
       /\ last' = Returned(inv.op, "running", 0, 0, 0, 0, 0, inv.ids)
       /\ UNCHANGED <<pending, plVars, segVars, ledgerVars, nextOut, clock>>
    \/ FailConcatenation({OutputDir})
    \/ FailConcatenation({OutputDir, [path |-> inv.outputPath, state |-> "partial",
                                      timeline |-> <<>>]})

\* a mergeAudioFiles that makes the output directory before it looks at its inputs
MkdirFirstMergeAudioFiles ==
    /\ inv.pc = "concatenating"
    /\ IF \E k \in 1..Len(inv.inputFiles) : inv.inputFiles[k] \notin files
       THEN FailConcatenation({OutputDir})
       ELSE RunTranscoder

\* mergeAudioFiles(inputFiles, outputFile, silenceDuration)
MergeAudioFiles ==
    /\ inv.pc = "concatenating"
    /\ IF \E k \in 1..Len(inv.inputFiles) : inv.inputFiles[k] \notin files
       THEN FailConcatenation({})
       ELSE RunTranscoder

\* MergedAudioFileModel.create and the success return
MergedAudioFileCreate ==
    /\ inv.pc = "recording"
    /\ merged_audio_files' = merged_audio_files \cup
          {[id |-> nextMergedId, source_files |-> JsonStringify(inv.ids),
            file_path |-> inv.outputPath, created_at |-> clock]}
    /\ nextMergedId' = nextMergedId + 1
    /\ inv' = Idle
    /\ last' = Returned(inv.op, "success", nextMergedId, 0, 0, 0, 0, inv.ids)
    /\ UNCHANGED <<pending, plVars, segVars, diskVars, clock>>

\* the process stops between `await this.mergeAudioFiles(...)` and
\* `await this.mergedAudioFileModel.create(...)`: the output file is written, no
\* row is inserted, nothing is returned
Crash ==
    /\ inv.pc = "recording"
    /\ inv' = Idle
    /\ last' = Returned(inv.op, "crashed", 0, 0, 0, 0, inv.outputPath, inv.ids)
    /\ UNCHANGED <<pending, plVars, segVars, ledgerVars, diskVars, clock>>

\* the explicit id lists a caller may hand to mergeAndSaveAudioFiles
IdLists == UNION {[1..n -> AudioIds] : n \in 0..MaxIdList}

\* the assembly operations, one invocation at a time, with the segment producer
MergeNext ==
    \/ \E onDisk \in BOOLEAN : CreateAudioFile(onDisk)
    \/ \E path \in {IntroPath, OutroPath} : SynthesizeAsset(path)
    \/ Tick
    \/ \E audioFileIds \in IdLists :
          MergeAndSaveAudioFiles(audioFileIds) /\ nextOut' <= MergeAttempts + 1
    \/ MergeUnprocessedAudioFiles /\ nextOut' <= MergeAttempts + 1
    \/ MergeUnprocessedAudioFilesWithIntro /\ nextOut' <= MergeAttempts + 1
    \/ MergeAudioFiles
    \/ MergedAudioFileCreate

MergeSpec == Init /\ [][MergeNext]_vars

\* every assembly operation, with the segment producer and a caller that fills
\* one playlist; the clock stands still
AssemblyNext ==
    \/ \E onDisk \in BOOLEAN : CreateAudioFile(onDisk)
    \/ \E path \in {IntroPath, OutroPath} : SynthesizeAsset(path)
    \/ nextPlaylistId <= AssemblyPlaylists /\ Create("a")
    \/ \E af \in ItemAudioIds :
          /\ nextItemId <= AssemblyItems
          /\ AddPlaylistItem([playlist_id |-> 1, audio_file_id |-> af, position |-> 0])
    \/ \E audioFileIds \in IdLists :
          MergeAndSaveAudioFiles(audioFileIds) /\ nextOut' <= MergeAttempts + 1
    \/ \E pl \in PlaylistIds :
          MergePlaylist(pl) /\ nextOut' <= MergeAttempts + 1
    \/ MergeUnprocessedAudioFiles /\ nextOut' <= MergeAttempts + 1
    \/ MergeUnprocessedAudioFilesWithIntro /\ nextOut' <= MergeAttempts + 1
    \/ MergeAudioFiles
    \/ MergedAudioFileCreate

AssemblySpec == Init /\ [][AssemblyNext]_vars

\* mergePlaylist over one playlist that a caller fills, empties and reorders
PlaylistMergeNext ==
    \/ nextPlaylistId <= AssemblyPlaylists /\ Create("a")
    \/ \E af \in ItemAudioIds, pos \in CallerPositions :
          AddPlaylistItem([playlist_id |-> 1, audio_file_id |-> af, position |-> pos])
    \/ \E id \in ItemIds : RemoveItem(id)
    \/ \E id \in ItemIds, newPosition \in 1..MaxItems :
          UpdatePlaylistItemPosition(id, newPosition)
    \/ \E onDisk \in BOOLEAN : CreateAudioFile(onDisk)
    \/ \E pl \in PlaylistIds :
          MergePlaylist(pl) /\ nextOut' <= MergeAttempts + 1
    \/ MergeAudioFiles
    \/ MergedAudioFileCreate

PlaylistMergeSpec == Init /\ [][PlaylistMergeNext]_vars

\* ---------------------------------------------------- DefaultPlaylistService
\* the method returns `status` and has written nothing
ServiceReturn(op, status, id, pl, af, position) ==
    /\ last' = Returned(op, status, id, pl, af, position, 0, <<>>)
    /\ UNCHANGED <<pending, plVars, segVars, ledgerVars, diskVars, clock, inv>>

\* the result of a call that was given a playlist name
Named(ret, name) ==
    [f \in DOMAIN ret \cup {"name"} |-> IF f = "name" THEN name ELSE ret[f]]

\* SELECT * FROM playlists WHERE id = ?
PlaylistById(pls, id) == {q \in pls : q.id = id}

\* a findByName that finds nothing
FindNoName(pls, name) == {}

\* SELECT * FROM playlists WHERE name = ?
FindByName(pls, name) == {q \in pls : q.name = name}

\* createPlaylist(name, description)
CreatePlaylist(name) ==
    /\ inv.pc = "idle"
    /\ IF FindByName(playlists, name) # {}
       THEN /\ last' = Named(Returned("createPlaylist", "error", 0, 0, 0, 0, 0, <<>>), name)
            /\ UNCHANGED <<pending, plVars, segVars, ledgerVars, diskVars, clock, inv>>
       ELSE \/ /\ nextPlaylistId <= MaxPlaylists
               /\ playlists' = playlists \cup {[id |-> nextPlaylistId, name |-> name]}
               /\ nextPlaylistId' = nextPlaylistId + 1
               /\ last' = Named(Returned("createPlaylist", "success", nextPlaylistId,
                                         nextPlaylistId, 0, 0, 0, <<>>), name)
               /\ UNCHANGED <<pending, playlist_items, nextItemId, segVars, ledgerVars,
                              diskVars, clock, inv>>
            \/ /\ last' = Named(Returned("createPlaylist", Thrown("createPlaylist"),
                                         0, 0, 0, 0, 0, <<>>), name)
               /\ UNCHANGED <<pending, plVars, segVars, ledgerVars, diskVars, clock, inv>>

\* the name argument left out
Undefined == "undefined"

\* updatePlaylist(playlistId, name, description)
UpdatePlaylist(playlistId, name, withDescription) ==
    /\ inv.pc = "idle"
    /\ \E status \in {"error", "skipped", "success"} :
          /\ last' = Named(Returned("updatePlaylist", status, playlistId, playlistId,
                                    0, 0, 0, <<>>), name)
          /\ UNCHANGED <<pending, playlist_items, nextPlaylistId, nextItemId, segVars,
                         ledgerVars, diskVars, clock, inv>>
          /\ IF PlaylistById(playlists, playlistId) = {}
             THEN status = "error" /\ playlists' = playlists
             ELSE \E playlist \in PlaylistById(playlists, playlistId) :
                  IF name # Undefined /\ name # playlist.name
                       /\ FindByName(playlists, name) # {}
                  THEN status = "error" /\ playlists' = playlists
                  ELSE IF name = Undefined /\ ~withDescription
                  THEN status = "skipped" /\ playlists' = playlists
                  ELSE \/ /\ status = "success"
                          /\ playlists' =
                                {IF q.id = playlistId /\ name # Undefined
                                 THEN [q EXCEPT !.name = name] ELSE q : q \in playlists}
                       \/ /\ status = Thrown("updatePlaylist")
                          /\ playlists' = playlists

\* a deletePlaylist without the findById check
UncheckedDeletePlaylist(playlistId) ==
    /\ inv.pc = "idle"
    /\ BeginTransaction(<<DeleteItemsOf(playlistId), DeletePlaylistRow(playlistId)>>,
                        Returned("deletePlaylist", "success", playlistId, playlistId, 0, 0,
                                 Cardinality(ItemsOf(playlist_items, playlistId)), <<>>))

\* deletePlaylist(playlistId)
DeletePlaylist(playlistId) ==
    /\ inv.pc = "idle"
    /\ IF PlaylistById(playlists, playlistId) = {}
       THEN ServiceReturn("deletePlaylist", "error", playlistId, playlistId, 0, 0)
       ELSE BeginTransaction(<<DeleteItemsOf(playlistId), DeletePlaylistRow(playlistId)>>,
                             Returned("deletePlaylist", "success", playlistId, playlistId, 0, 0,
                                      Cardinality(ItemsOf(playlist_items, playlistId)),
                                      <<>>))

\* playlistModel.updatePlaylistItemPosition(id, newPosition) as a function of the rows
MoveRows(items, id, newPosition) ==
    IF ItemById(items, id) = {} THEN items
    ELSE UpdatePositionRows(items, CHOOSE i \in ItemById(items, id) : TRUE, newPosition)

\* the calls of updatePlaylistItemPosition a loop makes, one after the other
RECURSIVE ApplyMoves(_, _)
ApplyMoves(items, moves) ==
    IF moves = <<>> THEN items
    ELSE ApplyMoves(MoveRows(items, Head(moves).id, Head(moves).to), Tail(moves))

\* removeAudioFileFromPlaylist: the loop over remainingItems
RealignMoves(remainingItems) ==
    SelectSeq([k \in 1..Len(remainingItems) |->
                  [id |-> remainingItems[k].id, from |-> remainingItems[k].position,
                   to |-> k]],
              LAMBDA m : m.from # m.to)

\* reorderPlaylistItem: the loop over playlistItems without the final call for
\* the item itself
LoopOnlyMoves(playlistItems, playlistItem, newPosition) ==
    LET currentPosition == playlistItem.position
        shifted == [k \in 1..Len(playlistItems) |->
                       [id |-> playlistItems[k].id, from |-> playlistItems[k].position,
                        to |-> IF newPosition > currentPosition
                               THEN playlistItems[k].position - 1
                               ELSE playlistItems[k].position + 1]]
    IN  SelectSeq(shifted,
                  LAMBDA m : IF newPosition > currentPosition
                             THEN m.from > currentPosition /\ m.from <= newPosition
                             ELSE m.from >= newPosition /\ m.from < currentPosition)

\* reorderPlaylistItem: the loop over playlistItems, then the item itself
ReorderMoves(playlistItems, playlistItem, newPosition) ==
    LET currentPosition == playlistItem.position
        shifted == [k \in 1..Len(playlistItems) |->
                       [id |-> playlistItems[k].id, from |-> playlistItems[k].position,
                        to |-> IF newPosition > currentPosition
                               THEN playlistItems[k].position - 1
                               ELSE playlistItems[k].position + 1]]
    IN  SelectSeq(shifted,
                  LAMBDA m : IF newPosition > currentPosition
                             THEN m.from > currentPosition /\ m.from <= newPosition
                             ELSE m.from >= newPosition /\ m.from < currentPosition)
        \o <<[id |-> playlistItem.id, from |-> currentPosition, to |-> newPosition]>>

\* an existence check that never finds the item
NeverFindPlaylistItem(items, pl, af) == {}

\* the existingItem check of addAudioFileToPlaylist
ExistingItem(items, pl, af) == FindPlaylistItem(items, pl, af)

\* addAudioFileToPlaylist(playlistId, audioFileId)
AddAudioFileToPlaylist(playlistId, audioFileId) ==
    /\ inv.pc = "idle"
    /\ IF PlaylistById(playlists, playlistId) = {}
       THEN ServiceReturn("addAudioFileToPlaylist", "error", 0, playlistId, audioFileId, 0)
       ELSE IF AudioById(audio_files, audioFileId) = {}
       THEN ServiceReturn("addAudioFileToPlaylist", "error", 0, playlistId, audioFileId, 0)
       ELSE IF ExistingItem(playlist_items, playlistId, audioFileId) # {}
       THEN \E existingItem \in ExistingItem(playlist_items, playlistId, audioFileId) :
               ServiceReturn("addAudioFileToPlaylist", "skipped", existingItem.id,
                             playlistId, audioFileId, existingItem.position)
       ELSE LET playlistItem == [playlist_id |-> playlistId, audio_file_id |-> audioFileId,
                                 position |-> MaxPositionOf(playlist_items, playlistId) + 1]
            IN  \/ /\ nextItemId <= MaxItems
                   /\ playlist_items' =
                         AddPlaylistItemRows(playlist_items, nextItemId, playlistItem)
                   /\ nextItemId' = nextItemId + 1
                   /\ last' = Returned("addAudioFileToPlaylist", "success", nextItemId,
                                       playlistId, audioFileId, playlistItem.position,
                                       0, <<>>)
                   /\ UNCHANGED <<pending, playlists, nextPlaylistId, segVars, ledgerVars,
                                  diskVars, clock, inv>>
                \/ ServiceReturn("addAudioFileToPlaylist",
                                 Thrown("addAudioFileToPlaylist"), 0, playlistId,
                                 audioFileId, 0)

\* removeAudioFileFromPlaylist(playlistId, audioFileId)
RemoveAudioFileFromPlaylist(playlistId, audioFileId) ==
    /\ inv.pc = "idle"
    /\ IF PlaylistById(playlists, playlistId) = {}
       THEN ServiceReturn("removeAudioFileFromPlaylist", "error", 0, playlistId,
                          audioFileId, 0)
       ELSE IF FindPlaylistItem(playlist_items, playlistId, audioFileId) = {}
       THEN ServiceReturn("removeAudioFileFromPlaylist", "skipped", 0, playlistId,
                          audioFileId, 0)
       ELSE \E playlistItem \in FindPlaylistItem(playlist_items, playlistId, audioFileId) :
            LET removed == RemoveItemRows(playlist_items, playlistItem)
                remainingItems == FindPlaylistItems(removed, playlistId)
            IN  /\ playlist_items' = ApplyMoves(removed, RealignMoves(remainingItems))
                /\ last' = Returned("removeAudioFileFromPlaylist", "success",
                                    playlistItem.id, playlistId, audioFileId, 0,
                                    playlistItem.position, <<>>)
                /\ UNCHANGED <<pending, playlists, nextPlaylistId, nextItemId, segVars,
                               ledgerVars, diskVars, clock, inv>>

\* reorderPlaylistItem without the range check on newPosition
UncheckedReorderPlaylistItem(playlistId, audioFileId, newPosition) ==
    /\ inv.pc = "idle"
    /\ IF PlaylistById(playlists, playlistId) = {}
       THEN ServiceReturn("reorderPlaylistItem", "error", 0, playlistId, audioFileId,
                          newPosition)
       ELSE IF FindPlaylistItem(playlist_items, playlistId, audioFileId) = {}
       THEN ServiceReturn("reorderPlaylistItem", "error", 0, playlistId, audioFileId,
                          newPosition)
       ELSE \E playlistItem \in FindPlaylistItem(playlist_items, playlistId, audioFileId) :
            LET playlistItems == FindPlaylistItems(playlist_items, playlistId)
            IN  IF playlistItem.position = newPosition
                THEN ServiceReturn("reorderPlaylistItem", "skipped", playlistItem.id,
                                   playlistId, audioFileId, newPosition)
                ELSE /\ playlist_items' =
                          ApplyMoves(playlist_items,
                                     ReorderMoves(playlistItems, playlistItem, newPosition))
                     /\ last' = Returned("reorderPlaylistItem", "success",
                                         playlistItem.id, playlistId, audioFileId,
                                         newPosition, playlistItem.position, <<>>)
                     /\ UNCHANGED <<pending, playlists, nextPlaylistId, nextItemId, segVars,
                                    ledgerVars, diskVars, clock, inv>>

\* reorderPlaylistItem(playlistId, audioFileId, newPosition)
ReorderPlaylistItem(playlistId, audioFileId, newPosition) ==
    /\ inv.pc = "idle"
    /\ IF PlaylistById(playlists, playlistId) = {}
       THEN ServiceReturn("reorderPlaylistItem", "error", 0, playlistId, audioFileId,
                          newPosition)
       ELSE IF FindPlaylistItem(playlist_items, playlistId, audioFileId) = {}
       THEN ServiceReturn("reorderPlaylistItem", "error", 0, playlistId, audioFileId,
                          newPosition)
       ELSE \E playlistItem \in FindPlaylistItem(playlist_items, playlistId, audioFileId) :
            LET playlistItems == FindPlaylistItems(playlist_items, playlistId)
            IN  IF newPosition < 1 \/ newPosition > Len(playlistItems)
                THEN ServiceReturn("reorderPlaylistItem", "error", playlistItem.id,
                                   playlistId, audioFileId, newPosition)
                ELSE IF playlistItem.position = newPosition
                THEN ServiceReturn("reorderPlaylistItem", "skipped", playlistItem.id,
                                   playlistId, audioFileId, newPosition)
                ELSE /\ playlist_items' =
                          ApplyMoves(playlist_items,
                                     ReorderMoves(playlistItems, playlistItem, newPosition))
                     /\ last' = Returned("reorderPlaylistItem", "success",
                                         playlistItem.id, playlistId, audioFileId,
                                         newPosition, playlistItem.position, <<>>)
                     /\ UNCHANGED <<pending, playlists, nextPlaylistId, nextItemId, segVars,
                                    ledgerVars, diskVars, clock, inv>>

\* the DefaultPlaylistService methods, one call at a time, with the segment producer
ServiceNext ==
    \/ CreateAudioFile(TRUE)
    \/ \E name \in PlaylistNames : CreatePlaylist(name)
    \/ \E pl \in PlaylistIds, name \in PlaylistNames \cup {Undefined},
          withDescription \in BOOLEAN : UpdatePlaylist(pl, name, withDescription)
    \/ \E pl \in PlaylistIds : DeletePlaylist(pl)
    \/ \E pl \in PlaylistIds, af \in AudioIds : AddAudioFileToPlaylist(pl, af)
    \/ \E pl \in PlaylistIds, af \in AudioIds : RemoveAudioFileFromPlaylist(pl, af)
    \/ \E pl \in PlaylistIds, af \in AudioIds, newPosition \in 0..(MaxItems + 1) :
          ReorderPlaylistItem(pl, af, newPosition)
    \/ ExecStatement
    \/ Commit

ServiceSpec == Init /\ [][ServiceNext]_vars

\* the Partial<MergedAudioFile> values handed to MergedAudioFileModel.update:
\* no field, a name only, or a source list of at most one id
MergedAudioFilePartials ==
    {<<>>, [name |-> "n"], [source_files |-> <<>>]}
        \cup {[source_files |-> <<id>>] : id \in AudioIds}

\* the source list of ledger row `id` as stored, <<>> when there is no such row
SourceFilesOf(rows, id) ==
    IF \E m \in rows : m.id = id
    THEN JsonParse((CHOOSE m \in rows : m.id = id).source_files)
    ELSE <<>>

\* MergedAudioFileModel.update(id, mergedAudioFile); `last.ids` is the source
\* list the row had
MergedAudioFileUpdate(id, mergedAudioFile) ==
    /\ inv.pc = "idle"
    /\ IF DOMAIN mergedAudioFile = {}
       THEN /\ merged_audio_files' = merged_audio_files
            /\ last' = Returned("mergedAudioFile.update", "false", id, 0, 0, 0, 0,
                                SourceFilesOf(merged_audio_files, id))
       ELSE /\ merged_audio_files' =
                  {IF m.id = id /\ "source_files" \in DOMAIN mergedAudioFile
                   THEN [m EXCEPT !.source_files =
                                      JsonStringify(mergedAudioFile.source_files)]
                   ELSE m : m \in merged_audio_files}
            /\ last' = Returned("mergedAudioFile.update", "true", id, 0, 0, 0, 0,
                                SourceFilesOf(merged_audio_files, id))
    /\ UNCHANGED <<pending, plVars, segVars, nextMergedId, diskVars, clock, inv>>

\* MergedAudioFileModel.delete(id); `last.ids` is the source list the row had
MergedAudioFileDelete(id) ==
    /\ inv.pc = "idle"
    /\ merged_audio_files' = {m \in merged_audio_files : m.id # id}
    /\ last' = Returned("mergedAudioFile.delete", "true", id, 0, 0, 0, 0,
                        SourceFilesOf(merged_audio_files, id))
    /\ UNCHANGED <<pending, plVars, segVars, nextMergedId, diskVars, clock, inv>>

\* the assembly operations of a process that may stop before the ledger insert
CrashNext ==
    \/ CreateAudioFile(TRUE)
    \/ \E audioFileIds \in IdLists :
          MergeAndSaveAudioFiles(audioFileIds) /\ nextOut' <= MergeAttempts + 1
    \/ MergeUnprocessedAudioFiles /\ nextOut' <= MergeAttempts + 1
    \/ MergeAudioFiles
    \/ MergedAudioFileCreate
    \/ Crash

CrashSpec == Init /\ [][CrashNext]_vars

\* the assembly operations with a ledger whose rows are edited and deleted
LedgerEditNext ==
    \/ CreateAudioFile(TRUE)
    \/ \E id \in AudioIds :
          MergeAndSaveAudioFiles(<<id>>) /\ nextOut' <= MergeAttempts + 1
    \/ MergeUnprocessedAudioFiles /\ nextOut' <= MergeAttempts + 1
    \/ MergeAudioFiles
    \/ MergedAudioFileCreate
    \/ \E id \in 1..MergeAttempts, mergedAudioFile \in MergedAudioFilePartials :
          MergedAudioFileUpdate(id, mergedAudioFile)
    \/ \E id \in 1..MergeAttempts : MergedAudioFileDelete(id)

LedgerEditSpec == Init /\ [][LedgerEditNext]_vars

\* the assembly operations over a ledger that outgrows the findAll limit: every
\* segment file is on disk, explicit lists name one segment
LedgerNext ==
    \/ nextAudioId <= LedgerSegments /\ CreateAudioFile(TRUE)
    \/ Tick
    \/ nextPlaylistId <= AssemblyPlaylists /\ Create("a")
    \/ /\ nextItemId <= LedgerItems
       /\ AddPlaylistItem([playlist_id |-> 1, audio_file_id |-> 1, position |-> 0])
    \/ \E id \in 1..LedgerSegments : MergeAndSaveAudioFiles(<<id>>)
    \/ MergePlaylist(1)
    \/ MergeUnprocessedAudioFiles
    \/ MergeAudioFiles
    \/ MergedAudioFileCreate

LedgerSpec == Init /\ [][LedgerNext]_vars

\* successive mergeUnprocessedAudioFiles runs, one at a time, with the segment
\* producer: segments are only added and ledger rows are never deleted
RunsNext ==
    \/ CreateAudioFile(TRUE)
    \/ Tick
    \/ MergeUnprocessedAudioFiles /\ nextOut' <= RunAttempts + 1
    \/ MergeAudioFiles
    \/ MergedAudioFileCreate

RunsSpec == Init /\ [][RunsNext]_vars

\* ------------------------------------------------------ two calls in flight
\* the tables a call in a transaction looked at before BEGIN TRANSACTION
ReadTables(call) == IF "read" \in DOMAIN call THEN call.read ELSE call.snapshot

\* the call that waited, as it resumes: a transaction that has run no statement
\* yet works on (and would roll back to) the tables as they are now
Resumed(call) ==
    IF call.pc # "transaction" THEN call
    ELSE [f \in DOMAIN call \cup {"read"} |->
             IF f = "read" THEN ReadTables(call)
             ELSE IF f = "snapshot" THEN <<playlists, playlist_items>>
             ELSE call[f]]

\* the running call reaches an await and the call that waited goes on; a
\* transaction that has written holds the database until COMMIT or ROLLBACK
Switch ==
    /\ inv.pc # "idle" \/ pending.inv.pc # "idle"
    /\ inv.pc = "transaction" => inv.executed = 0
    /\ inv' = Resumed(pending.inv)
    /\ last' = pending.last
    /\ pending' = [inv |-> inv, last |-> last]
    /\ UNCHANGED <<plVars, segVars, ledgerVars, diskVars, clock>>

\* two mergeUnprocessedAudioFiles calls in flight, with the segment producer
ConcurrentMergeNext ==
    \/ \E onDisk \in BOOLEAN : CreateAudioFile(onDisk)
    \/ MergeUnprocessedAudioFiles /\ nextOut' <= MergeAttempts + 1
    \/ MergeAudioFiles
    \/ MergedAudioFileCreate
    \/ Switch

ConcurrentMergeSpec == Init /\ [][ConcurrentMergeNext]_vars

\* removeItem and updatePlaylistItemPosition on one playlist: two callers, each
\* on its own connection to the database file, fill the playlist and then make
\* one call each
ConcurrentPlaylistNext ==
    \/ nextPlaylistId <= AssemblyPlaylists /\ Create("a")
    \/ AddPlaylistItem([playlist_id |-> 1, audio_file_id |-> 1, position |-> 0])
    \/ \E id \in ItemIds :
          /\ last.op \in {"none", "create", "addPlaylistItem"}
          /\ RemoveItemInTransaction(id)
    \/ \E id \in ItemIds, newPosition \in 1..MaxItems :
          /\ last.op \in {"none", "create", "addPlaylistItem"}
          /\ UpdatePlaylistItemPositionInTransaction(id, newPosition)
    \/ ExecStatement
    \/ Commit
    \/ Switch

ConcurrentPlaylistSpec == Init /\ [][ConcurrentPlaylistNext]_vars

Next == PlaylistNext \/ MergeNext \/ \E pl \in PlaylistIds : MergePlaylist(pl)

Spec == Init /\ [][Next]_vars

\* ============================================================== properties
\* the ids of a playlist's items in position order
OrderedIds(items, pl) ==
    [k \in 1..Len(FindPlaylistItems(items, pl)) |-> FindPlaylistItems(items, pl)[k].id]

RemoveAt(s, c) == SubSeq(s, 1, c - 1) \o SubSeq(s, c + 1, Len(s))

InsertAt(s, t, e) == SubSeq(s, 1, t - 1) \o <<e>> \o SubSeq(s, t, Len(s))

\* the list s with its c-th element taken out and put back as the t-th
Relocate(s, c, t) == InsertAt(RemoveAt(s, c), t, s[c])

Count(items, pl) == Cardinality(ItemsOf(items, pl))

\* C1 (contiguity invariant): between operations, in every playlist the set of
\* positions of its items is exactly 1..N, N the number of its items: no gap,
\* no duplicate, no zero or negative position.
C1_Contiguity ==
    \A pl \in PlaylistIds :
        {i.position : i \in ItemsOf(playlist_items, pl)} = 1..Count(playlist_items, pl)

\* a removal at the head of a playlist that left two renumbered items
C1_Witness ==
    /\ last.op = "removeItem" /\ last.status = "true" /\ last.from = 1
    /\ Count(playlist_items, last.playlist_id) = 2

\* what updatePlaylistItemPosition(id, t) with t in 1..N makes of the rows `old`
MoveSemantics(old, new, id, t) ==
    \A it \in ItemById(old, id) :
        LET c == it.position
            pl == it.playlist_id
        IN  /\ {i.id : i \in new} = {i.id : i \in old}
            /\ Cardinality(new) = Cardinality(old)
            /\ \A i \in old : \E j \in new :
                  /\ j.id = i.id
                  /\ j.playlist_id = i.playlist_id
                  /\ j.audio_file_id = i.audio_file_id
                  /\ j.position =
                        IF i.id = id THEN t
                        ELSE IF i.playlist_id = pl /\ t < c /\ t <= i.position
                                /\ i.position < c THEN i.position + 1
                        ELSE IF i.playlist_id = pl /\ t > c /\ c < i.position
                                /\ i.position <= t THEN i.position - 1
                        ELSE i.position
            /\ OrderedIds(new, pl) = Relocate(OrderedIds(old, pl), c, t)

\* C2 (move semantics): updatePlaylistItemPosition(item, t) with t in 1..N puts
\* the item at t, moves the items formerly in [t, c) up by one when t < c and
\* those formerly in (c, t] down by one when t > c, and keeps every other
\* item: the position-ordered list has its c-th element relocated to t.
C2_MoveSemantics ==
    [][(/\ last'.op = "updatePlaylistItemPosition"
        /\ last'.status = "true"
        /\ last'.position \in 1..Count(playlist_items, last'.playlist_id))
       => MoveSemantics(playlist_items, playlist_items', last'.id, last'.position)]_vars

\* the last item of a three-item playlist has been moved to the head
C2_Witness ==
    /\ last.op = "updatePlaylistItemPosition" /\ last.status = "true"
    /\ last.from = 3 /\ last.position = 1
    /\ Count(playlist_items, last.playlist_id) = 3
    /\ \E i \in ItemById(playlist_items, last.id) : i.position = 1

\* what removeItem(id) makes of the rows `old`
RemovalRenumbering(old, new, id) ==
    \A it \in ItemById(old, id) :
        LET p == it.position
            pl == it.playlist_id
        IN  /\ {i.id : i \in new} = {i.id : i \in old} \ {id}
            /\ Cardinality(new) = Cardinality(old) - 1
            /\ \A i \in old : i.id # id => \E j \in new :
                  /\ j.id = i.id
                  /\ j.playlist_id = i.playlist_id
                  /\ j.audio_file_id = i.audio_file_id
                  /\ j.position = IF i.playlist_id = pl /\ i.position > p
                                  THEN i.position - 1 ELSE i.position
            /\ {i.position : i \in ItemsOf(new, pl)} = 1..(Count(old, pl) - 1)
            /\ OrderedIds(new, pl) = RemoveAt(OrderedIds(old, pl), p)

\* C3 (removal renumbering): removeItem on the item at position p of an N-item
\* playlist leaves N-1 items at positions 1..N-1: the items below p keep their
\* position, those above p move down by one, the relative order is kept.
C3_RemovalRenumbering ==
    [][(last'.op = "removeItem" /\ last'.status = "true")
       => RemovalRenumbering(playlist_items, playlist_items', last'.id)]_vars

\* the middle item of a three-item playlist has been removed
C3_Witness ==
    /\ last.op = "removeItem" /\ last.status = "true" /\ last.from = 2
    /\ Count(playlist_items, last.playlist_id) = 2

\* C4 (addItem appends at the tail): addPlaylistItem stores the new item at the
\* playlist's maximum position (0 if empty) + 1, whatever position the caller
\* supplied, and changes no existing item of any playlist.
C4_AddAppends ==
    [][last'.op = "addPlaylistItem"
       => /\ ItemById(playlist_items, last'.id) = {}
          /\ playlist_items' = playlist_items \cup
                {[id |-> last'.id, playlist_id |-> last'.playlist_id,
                  audio_file_id |-> last'.audio_file_id,
                  position |-> MaxPositionOf(playlist_items, last'.playlist_id) + 1]}]_vars

\* an item was appended to a non-empty playlist at a position other than the
\* one the caller supplied, while another playlist holds items
C4_Witness ==
    /\ last.op = "addPlaylistItem"
    /\ \E i \in ItemById(playlist_items, last.id) :
          i.position # last.position /\ i.position >= 2
    /\ \E j \in playlist_items : j.playlist_id # last.playlist_id

\* ------------------------------------------------------ assembly properties
MergeUnprocessedOps == {"mergeUnprocessedAudioFiles", "mergeUnprocessedAudioFilesWithIntro"}

\* the ids some ledger row lists
LedgerIds(rows) == UNION {Range(JsonParse(m.source_files)) : m \in rows}

\* the segments that appear in no ledger row
TrulyUnprocessed == {r.id : r \in audio_files} \ LedgerIds(merged_audio_files)

IsAscending(ids) == \A i, j \in 1..Len(ids) : i < j => ids[i] < ids[j]

\* the call that just returned an error had reached the concatenation
ConcatenationFailed ==
    /\ inv.pc = "idle" /\ last.status = "error"
    /\ last.ids # <<>> /\ last.id = 0

\* C5 (resolver exactness): the ids mergeUnprocessedAudioFiles and
\* mergeUnprocessedAudioFilesWithIntro resolve as unprocessed are exactly the ids
\* of the segments that appear in no ledger row's source_files; a skipped call
\* means there is no such segment.
C5_ResolverExact ==
    /\ (inv.pc = "concatenating" /\ inv.op \in MergeUnprocessedOps)
          => Range(inv.ids) = TrulyUnprocessed
    /\ (inv.pc = "idle" /\ last.op \in MergeUnprocessedOps /\ last.status = "skipped")
          => TrulyUnprocessed = {}

\* C6 (merge atomicity): the ledger changes only in the recording step, which is
\* reached only with the output file completely written; when the concatenation
\* fails the call returns an error and the ledger holds exactly the rows it held
\* before the call, none of them naming the attempted output path.
C6_MergeAtomicity ==
    [][/\ (merged_audio_files' # merged_audio_files)
            => /\ inv.pc = "recording"
               /\ \E f \in outFiles : f.path = inv.outputPath /\ f.state = "complete"
       /\ (inv.pc = "concatenating" /\ inv'.pc = "idle")
            => /\ last'.status = "error"
               /\ merged_audio_files' = inv.ledger0
               /\ \A m \in merged_audio_files' : m.file_path # inv.outputPath
       /\ \A m \in merged_audio_files' :
             \E f \in outFiles' : f.path = m.file_path /\ f.state = "complete"]_vars

\* the concatenation of a mergePlaylist call failed, leaving a partial output
\* that no row of a non-empty ledger names
C6_Witness ==
    /\ ConcatenationFailed
    /\ last.op = "mergePlaylist"
    /\ merged_audio_files # {}
    /\ \E f \in outFiles :
          /\ f.state = "partial"
          /\ \A m \in merged_audio_files : m.file_path # f.path

\* C7 (re-runnability): once a mergeUnprocessed call has succeeded every segment
\* is referenced by a ledger row, so the resolver has nothing left, and a
\* further mergeUnprocessed call returns skipped and adds no ledger row.
C7_Rerunnable ==
    /\ [](last.op = "mergeUnprocessedAudioFiles" /\ last.status = "success"
            => TrulyUnprocessed = {})
    /\ [][(/\ last.op = "mergeUnprocessedAudioFiles" /\ last.status = "success"
           /\ last'.op = "mergeUnprocessedAudioFiles" /\ last'.status # "success")
          => (last'.status = "skipped"
              /\ merged_audio_files' = merged_audio_files)]_vars

\* C8 (ascending-identifier order): mergeUnprocessedAudioFiles hands the files to
\* the concatenation in ascending segment-id order and records the ids in that
\* order, whatever the generated_at timestamps are.
C8_AscendingOrder ==
    /\ (inv.pc # "idle" /\ inv.op = "mergeUnprocessedAudioFiles")
          => /\ IsAscending(inv.ids)
             /\ inv.inputFiles = [k \in 1..Len(inv.ids) |-> SegPath(inv.ids[k])]
    /\ (last.op = "mergeUnprocessedAudioFiles" /\ last.status = "success")
          => \A m \in merged_audio_files :
                m.id = last.id => IsAscending(JsonParse(m.source_files))

\* C9 (all-or-nothing resolution): when an id of the list handed to
\* mergeAndSaveAudioFiles resolves to no segment, the call returns an error
\* naming a missing id, never starts the concatenation, writes no output file
\* and adds no ledger row, even when earlier ids did resolve.
C9_AllOrNothing ==
    [][(/\ inv.pc = "idle"
        /\ last'.op = "mergeAndSaveAudioFiles"
        /\ \E k \in 1..Len(last'.ids) : AudioById(audio_files, last'.ids[k]) = {})
       => /\ last'.status = "error"
          /\ last'.id \in Range(last'.ids)
          /\ AudioById(audio_files, last'.id) = {}
          /\ inv'.pc = "idle"
          /\ outFiles' = outFiles /\ nextOut' = nextOut
          /\ merged_audio_files' = merged_audio_files]_vars

\* the second id of a two-id list was missing while the first one resolved
C9_Witness ==
    /\ last.op = "mergeAndSaveAudioFiles" /\ last.status = "error"
    /\ Len(last.ids) = 2 /\ last.id = last.ids[2]
    /\ AudioById(audio_files, last.ids[1]) # {}
    /\ AudioById(audio_files, last.ids[2]) = {}

\* C10 (one verbatim row): a successful mergeAndSaveAudioFiles(segmentIds, name)
\* adds exactly one ledger row, whose source list read back equals segmentIds
\* (same order, same repetitions), and leaves the earlier rows as they were; no
\* assembly step removes or changes a ledger row.
C10_OneVerbatimRow ==
    [][/\ (inv.pc = "recording" /\ inv.op = "mergeAndSaveAudioFiles"
             /\ last'.status = "success")
          => \E row \in merged_audio_files' :
                /\ row \notin merged_audio_files
                /\ merged_audio_files' = merged_audio_files \cup {row}
                /\ Cardinality(merged_audio_files') = Cardinality(inv.ledger0) + 1
                /\ merged_audio_files = inv.ledger0
                /\ row.id = last'.id
                /\ JsonParse(row.source_files) = last'.ids
                /\ last'.ids = inv.ids
       /\ merged_audio_files \subseteq merged_audio_files']_vars

\* a list with a repeated id was merged and recorded as the second ledger row
C10_Witness ==
    /\ last.op = "mergeAndSaveAudioFiles" /\ last.status = "success"
    /\ Len(last.ids) = 2 /\ last.ids[1] = last.ids[2]
    /\ Cardinality(merged_audio_files) = 2
    /\ \E m \in merged_audio_files : m.id = last.id /\ JsonParse(m.source_files) = last.ids

\* ------------------------------------------------- mergePlaylist properties
\* the segment ids of playlist pl, the one at position 1 first
ByPosition(items, pl) ==
    [k \in 1..Count(items, pl) |->
        (CHOOSE i \in ItemsOf(items, pl) : i.position = k).audio_file_id]

\* C11 (position order): mergePlaylist hands to the merge the playlist's segment
\* ids sorted by current position, not by identifier, whatever adds, removals
\* and moves came before; the concatenation gets the files in that order and the
\* new ledger row records the ids in that order.
C11_PositionOrder ==
    [][/\ (inv.pc = "idle" /\ inv'.pc = "concatenating" /\ inv'.op = "mergePlaylist")
            => /\ \E p \in playlists : inv'.ids = ByPosition(playlist_items, p.id)
               /\ inv'.inputFiles = [k \in 1..Len(inv'.ids) |-> SegPath(inv'.ids[k])]
       /\ (inv.pc = "recording" /\ inv.op = "mergePlaylist" /\ inv'.pc = "idle")
            => \E m \in merged_audio_files' :
                  /\ m.id = last'.id
                  /\ \E p \in playlists :
                        JsonParse(m.source_files) = ByPosition(playlist_items, p.id)]_vars

\* a playlist whose position order is not its identifier order, after a move,
\* was merged and recorded
C11_Witness ==
    /\ last.op = "mergePlaylist" /\ last.status = "success"
    /\ Len(last.ids) >= 2 /\ last.ids[1] > last.ids[2]
    /\ \E i, j \in ItemsOf(playlist_items, 1) :
          i.id < j.id /\ i.audio_file_id < j.audio_file_id /\ i.position > j.position
    /\ \E m \in merged_audio_files : m.id = last.id /\ JsonParse(m.source_files) = last.ids

\* the state an assembly operation may touch is as it was, and nothing runs
NoAssemblyEffect ==
    /\ inv'.pc = "idle"
    /\ outFiles' = outFiles /\ nextOut' = nextOut
    /\ merged_audio_files' = merged_audio_files /\ nextMergedId' = nextMergedId
    /\ files' = files /\ audio_files' = audio_files
    /\ playlists' = playlists /\ playlist_items' = playlist_items

\* every list the resolver may return from this state is empty
ResolvesEmpty(limit) ==
    \A mergedAudioFiles \in MergedFindAll(merged_audio_files, limit),
       allAudioFiles \in AudioFindAll(audio_files, limit) :
       UnprocessedAudioFileIds(mergedAudioFiles, allAudioFiles) = <<>>

\* C12 (SkippedEmpty has no effect): mergePlaylist on an existing playlist with
\* zero items, and mergeUnprocessed (with or without intro) when the resolved
\* set is empty, return skipped, not error, start no concatenation, write no
\* output file and leave the ledger as it was.  (For mergeUnprocessed the first
\* half is stated by contraposition: a call that does not return skipped had
\* something to resolve.)
C12_SkippedEmpty ==
    [][(inv.pc = "idle" /\ clock' = clock) =>
        /\ (/\ last'.op = "mergePlaylist"
            /\ \E p \in playlists : p.id = last'.playlist_id
            /\ ItemsOf(playlist_items, last'.playlist_id) = {})
              => (last'.status = "skipped" /\ NoAssemblyEffect)
        /\ (last'.op = "mergeUnprocessedAudioFiles" /\ last'.status # "skipped")
              => ~ResolvesEmpty(FindAllLimit)
        /\ (/\ last'.op = "mergeUnprocessedAudioFilesWithIntro"
            /\ last'.status # "skipped"
            /\ {IntroPath, OutroPath} \subseteq files)
              => ~ResolvesEmpty(IntroFindAllLimit)
        /\ (last'.op \in MergeUnprocessedOps \cup {"mergePlaylist"}
              /\ last'.status = "skipped") => NoAssemblyEffect]_vars

\* mergePlaylist was skipped on an existing playlist without items, while the
\* segment store and the ledger hold rows
C12_Witness ==
    /\ last.op = "mergePlaylist" /\ last.status = "skipped"
    /\ \E p \in playlists : p.id = last.playlist_id
    /\ ItemsOf(playlist_items, last.playlist_id) = {}
    /\ audio_files # {} /\ merged_audio_files # {}

\* C13 (missing intro/outro asset): mergeUnprocessedAudioFilesWithIntro with
\* radio_intro.mp3 or radio_outro.mp3 absent returns an error before it resolves
\* or concatenates anything: no output file, no ledger row, whatever the
\* unprocessed set is.
C13_MissingAsset ==
    [][(/\ inv.pc = "idle" /\ clock' = clock
        /\ last'.op = "mergeUnprocessedAudioFilesWithIntro"
        /\ (IntroPath \notin files \/ OutroPath \notin files))
       => /\ last'.status = "error"
          /\ last'.ids = <<>>
          /\ NoAssemblyEffect]_vars

\* the call failed with the intro present and the outro absent, while
\* unprocessed segments with their files on disk were waiting
C13_Witness ==
    /\ last.op = "mergeUnprocessedAudioFilesWithIntro" /\ last.status = "error"
    /\ IntroPath \in files /\ OutroPath \notin files
    /\ TrulyUnprocessed # {}
    /\ \A id \in TrulyUnprocessed : SegPath(id) \in files

\* the output file a concatenation step has just written completely
Written(f) == f \in outFiles' /\ f.path = inv.outputPath /\ f.state = "complete"

\* C14 (order preservation and gap count): for an effective input list of
\* n >= 2 files mergeAudioFiles pads input i with silenceDuration for i < n-1
\* and with 0 for i = n-1 and concatenates in index order: the timeline has the
\* inputs in order, n-1 silence gaps, no trailing silence, and with intro and
\* outro supplied the intro first and the outro last.
C14_OrderAndGaps ==
    [][(inv.pc = "concatenating" /\ inv'.pc = "recording" /\ Len(inv.inputFiles) >= 2)
       => \E f \in outFiles' :
            LET n == Len(inv.inputFiles)
            IN  /\ Written(f)
                /\ Len(f.timeline) = n
                /\ \A k \in 1..n : f.timeline[k].file = inv.inputFiles[k]
                /\ \A k \in 1..(n - 1) :
                       f.timeline[k].pad = inv.silence /\ inv.silence > 0
                /\ f.timeline[n].pad = 0
                /\ Cardinality({k \in 1..n : f.timeline[k].pad > 0}) = n - 1
                /\ inv.op = "mergeUnprocessedAudioFilesWithIntro"
                      => /\ n = Len(inv.ids) + 2
                         /\ f.timeline[1].file = IntroPath
                         /\ f.timeline[n].file = OutroPath
                         /\ inv.silence = IntroSilence
                         /\ \A k \in 2..(n - 1) :
                               f.timeline[k].file \in {SegPath(id) : id \in Range(inv.ids)}
                /\ inv.op # "mergeUnprocessedAudioFilesWithIntro"
                      => inv.silence = DefaultSilence]_vars

\* intro, two segments and outro were concatenated into a complete output
C14_Witness ==
    /\ inv.pc = "recording" /\ inv.op = "mergeUnprocessedAudioFilesWithIntro"
    /\ Len(inv.ids) = 2
    /\ \E f \in outFiles :
          /\ f.path = inv.outputPath /\ f.state = "complete"
          /\ Len(f.timeline) = 4 /\ f.timeline[3].pad > 0 /\ f.timeline[4].pad = 0

\* C15 (validation precedes every effect of the concatenation): when a path of
\* the effective input list does not exist, mergeAudioFiles fails before the
\* transcoder runs and before the output directory or the output file is made.
C15_ValidationFirst ==
    [][(/\ inv.pc = "concatenating" /\ inv' # inv
        /\ \E k \in 1..Len(inv.inputFiles) : inv.inputFiles[k] \notin files)
       => /\ inv'.pc = "idle"
          /\ last'.status = "error"
          /\ outFiles' = outFiles
          /\ \A f \in outFiles' : f.path # inv.outputPath
          /\ merged_audio_files' = merged_audio_files]_vars

\* a merge of two segments failed on the second one's missing file, before any
\* directory or file was made
C15_Witness ==
    /\ ConcatenationFailed
    /\ Len(last.ids) = 2
    /\ AudioById(audio_files, last.ids[1]) # {} /\ AudioById(audio_files, last.ids[2]) # {}
    /\ SegPath(last.ids[1]) \in files /\ SegPath(last.ids[2]) \notin files
    /\ outFiles = {}

\* C16 (transcode failure leaves no output): when the transcoder fails during
\* mergeAudioFiles no file, partial or complete, is kept at the output path, and
\* the files of earlier merges are as they were.
C16_NoOutputOnFailure ==
    [][(inv.pc = "concatenating" /\ inv'.pc = "idle")
       => /\ \A f \in outFiles' : f.path # inv.outputPath
          /\ outFiles' \ {OutputDir} = outFiles \ {OutputDir}]_vars

\* ------------------------------------------------- transaction properties
\* what the whole operation inv.op makes of the tables it began with
Committed(snapshot, ret) ==
    LET pls == snapshot[1]
        items == snapshot[2]
    IN  CASE ret.op \in {"removeItem", "removePlaylistItem"} ->
                <<pls, UNION {RemoveItemRows(items, it) : it \in ItemById(items, ret.id)}>>
          [] ret.op = "updatePlaylistItemPosition" ->
                <<pls, UNION {UpdatePositionRows(items, it, ret.position) :
                                 it \in ItemById(items, ret.id)}>>
          [] ret.op = "delete" ->
                <<{q \in pls : q.id # ret.id}, {i \in items : i.playlist_id # ret.id}>>

\* C17 (rollback on failure): when a statement inside the transaction of
\* removeItem, removePlaylistItem, updatePlaylistItemPosition or delete fails,
\* the error is rethrown and all playlist rows and positions are exactly as
\* before the call (a failed decrement never leaves the delete visible); when the
\* callback succeeds all its writes are committed together.
C17_Rollback ==
    [][/\ (inv.pc = "idle" /\ inv'.pc = "transaction")
            => inv'.snapshot = <<playlists, playlist_items>>
       /\ (inv.pc = "transaction" /\ inv'.pc = "idle" /\ last'.status = "threw")
            => /\ <<playlists', playlist_items'>> = inv.snapshot
               /\ C1_Contiguity'
       /\ (inv.pc = "transaction" /\ inv'.pc = "idle" /\ last'.status # "threw")
            => /\ last' = inv.ret
               /\ <<playlists', playlist_items'>> = Committed(inv.snapshot, inv.ret)
               /\ <<playlists', playlist_items'>> = <<playlists, playlist_items>>]_vars

\* the decrement of a removeItem at the head of a three-item playlist failed
\* after the delete had run, and the three items are back in place
C17_Witness ==
    /\ last.op = "removeItem" /\ last.status = "threw"
    /\ last.position = 1 /\ last.from = 1
    /\ Count(playlist_items, last.playlist_id) = 3
    /\ \E i \in ItemById(playlist_items, last.id) : i.position = 1

\* --------------------------------------------------- playlist service properties
\* C18 (deletePlaylist): on an existing playlist it removes the playlist and all
\* its items in one transaction and leaves every other playlist and its items as
\* they were; on a playlist that does not exist (one already deleted included)
\* it returns an error, never success, and changes nothing.
C18_DeletePlaylist ==
    [][/\ (/\ inv.pc = "idle" /\ last'.op = "deletePlaylist"
           /\ PlaylistById(playlists, last'.id) = {})
            => /\ last'.status = "error"
               /\ inv'.pc = "idle"
               /\ playlists' = playlists /\ playlist_items' = playlist_items
       /\ (inv.pc = "transaction" /\ inv'.pc = "idle" /\ inv.op = "deletePlaylist")
            => LET pls == inv.snapshot[1]
                   items == inv.snapshot[2]
                   id == inv.ret.id
               IN  IF last'.status = "success"
                   THEN /\ PlaylistById(pls, id) # {}
                        /\ playlists' = pls \ PlaylistById(pls, id)
                        /\ playlist_items' = items \ ItemsOf(items, id)
                        /\ \A q \in pls : q.id # id =>
                              /\ q \in playlists'
                              /\ ItemsOf(playlist_items', q.id) = ItemsOf(items, q.id)
                   ELSE /\ last'.status = "error"
                        /\ playlists' = pls /\ playlist_items' = items
       /\ (last'.op = "deletePlaylist" /\ last'.status = "success"
              /\ last' # last)
            => (inv.pc = "transaction" /\ inv'.pc = "idle")]_vars

\* a playlist with two items was deleted while another playlist kept its item
C18_Witness ==
    /\ last.op = "deletePlaylist" /\ last.status = "success" /\ last.from = 2
    /\ PlaylistById(playlists, last.id) = {}
    /\ ItemsOf(playlist_items, last.id) = {}
    /\ \E q \in playlists : ItemsOf(playlist_items, q.id) # {}

\* C19 (at most one membership per segment): under addAudioFileToPlaylist,
\* removeAudioFileFromPlaylist and reorderPlaylistItem, one call at a time, no
\* playlist holds two items with the same segment id; adding a segment that is
\* already in the playlist returns skipped with the existing item and changes
\* no row.
C19_OneMembership ==
    /\ [](\A i, j \in playlist_items :
             (i.playlist_id = j.playlist_id /\ i.audio_file_id = j.audio_file_id)
                => i = j)
    /\ [][(/\ inv.pc = "idle" /\ last'.op = "addAudioFileToPlaylist"
            /\ PlaylistById(playlists, last'.playlist_id) # {}
            /\ AudioById(audio_files, last'.audio_file_id) # {}
            /\ FindPlaylistItem(playlist_items, last'.playlist_id,
                                last'.audio_file_id) # {})
           => /\ last'.status = "skipped"
              /\ \E i \in FindPlaylistItem(playlist_items, last'.playlist_id,
                                            last'.audio_file_id) :
                    last'.id = i.id /\ last'.position = i.position
              /\ playlist_items' = playlist_items
              /\ nextItemId' = nextItemId /\ playlists' = playlists]_vars

\* adding the segment at the head of a two-item playlist again was skipped
C19_Witness ==
    /\ last.op = "addAudioFileToPlaylist" /\ last.status = "skipped"
    /\ Count(playlist_items, last.playlist_id) = 2
    /\ \E i \in ItemById(playlist_items, last.id) :
          i.audio_file_id = last.audio_file_id /\ i.position = 1

\* C20 (playlist names are unique): under createPlaylist and updatePlaylist, one
\* call at a time, no two playlists have the same name; creating a playlist
\* with an existing name, or renaming a playlist to another playlist's name,
\* returns an error and writes nothing.
C20_UniqueNames ==
    /\ [](\A p, q \in playlists : p.name = q.name => p.id = q.id)
    /\ [][/\ (/\ inv.pc = "idle" /\ last'.op = "createPlaylist"
              /\ \E q \in playlists : q.name = last'.name)
               => /\ last'.status = "error"
                  /\ playlists' = playlists /\ nextPlaylistId' = nextPlaylistId
                  /\ playlist_items' = playlist_items
          /\ (/\ inv.pc = "idle" /\ last'.op = "updatePlaylist"
              /\ PlaylistById(playlists, last'.id) # {}
              /\ \E q \in playlists : q.id # last'.id /\ q.name = last'.name)
               => /\ last'.status = "error"
                  /\ playlists' = playlists
                  /\ playlist_items' = playlist_items]_vars

\* renaming a playlist to the name of the other playlist was refused
C20_Witness ==
    /\ last.op = "updatePlaylist" /\ last.status = "error"
    /\ Cardinality(playlists) = 2
    /\ PlaylistById(playlists, last.id) # {}
    /\ \E q \in playlists : q.id # last.id /\ q.name = last.name

\* ------------------------------------------------- two calls in flight
\* the call is between its resolution of the unprocessed set and its return
InFlight(call) ==
    call.pc \in {"concatenating", "recording"} /\ call.op = "mergeUnprocessedAudioFiles"

\* C21 (overlap under concurrency): a mergeUnprocessedAudioFiles call made while
\* another one is between its resolution and its ledger insert sees the same
\* ledger, so (within the findAll limit) it resolves the other call's segments
\* again and goes on to concatenate them; each call that reaches the recording
\* step inserts the ids it resolved, whatever rows were inserted meanwhile.
C21_Overlap ==
    [][/\ (/\ inv.pc = "idle" /\ pending' = pending
           /\ last'.op = "mergeUnprocessedAudioFiles"
           /\ InFlight(pending.inv)
           /\ merged_audio_files = pending.inv.ledger0
           /\ Cardinality(audio_files) <= FindAllLimit)
            => /\ inv'.pc = "concatenating"
               /\ Range(pending.inv.ids) \subseteq Range(inv'.ids)
       /\ (inv.pc = "recording" /\ inv'.pc = "idle" /\ pending' = pending)
            => /\ last'.status = "success"
               /\ \E row \in merged_audio_files' :
                     /\ row \notin merged_audio_files
                     /\ merged_audio_files' = merged_audio_files \cup {row}
                     /\ row.id = last'.id
                     /\ JsonParse(row.source_files) = inv.ids]_vars

\* both calls have succeeded and their two ledger rows share a segment
C21_Witness ==
    /\ inv.pc = "idle" /\ pending.inv.pc = "idle"
    /\ last.op = "mergeUnprocessedAudioFiles" /\ last.status = "success"
    /\ pending.last.op = "mergeUnprocessedAudioFiles" /\ pending.last.status = "success"
    /\ \E m, n \in merged_audio_files :
          /\ m.id = last.id /\ n.id = pending.last.id /\ m.id # n.id
          /\ Range(JsonParse(m.source_files)) \cap Range(JsonParse(n.source_files)) # {}

\* the positions of every playlist of `items` are 1..N
Contiguous(items) ==
    \A pl \in PlaylistIds : {i.position : i \in ItemsOf(items, pl)} = 1..Count(items, pl)

\* the rows of the call's playlist are, at its first statement, those it read
Fresh(call) ==
    ItemsOf(ReadTables(call)[2], call.ret.playlist_id) =
        ItemsOf(call.snapshot[2], call.ret.playlist_id)

\* the statements the call runs, from the position (and the maximum) it read
Writes(call) ==
    LET ret == call.ret
        item == [id |-> ret.id, playlist_id |-> ret.playlist_id,
                 audio_file_id |-> ret.audio_file_id, position |-> ret.from]
    IN  IF ret.op = "removeItem"
        THEN <<DeleteItem(ret.id), Decrement(ret.playlist_id, ret.from)>>
        ELSE LET np == ClampPosition(ReadTables(call)[2], item, ret.position)
             IN  <<Shift(item, np), SetPosition(ret.id, np)>>

\* C22 (interleaved reorder/remove): removeItem and updatePlaylistItemPosition
\* write with the position (and the maximum) they read before their
\* transaction began.  A call whose playlist was not written between its reads
\* and its writes commits what the operation means and keeps the positions
\* 1..N; a call whose reads are stale commits all the same, and the positions
\* it leaves are those its stale statements produce.
C22_StaleReads ==
    [][(/\ inv.pc = "transaction" /\ inv'.pc = "idle" /\ pending' = pending
        /\ last'.status = "true")
       => /\ <<playlists', playlist_items'>> =
                Exec(Writes(inv)[2], Exec(Writes(inv)[1], inv.snapshot))
          /\ Fresh(inv)
                => /\ <<playlists', playlist_items'>> = Committed(inv.snapshot, inv.ret)
                   /\ Contiguous(inv.snapshot[2]) => Contiguous(playlist_items')]_vars

\* both calls have committed and the playlist's positions are not 1..N
C22_Witness ==
    /\ inv.pc = "idle" /\ pending.inv.pc = "idle"
    /\ last.op \in {"removeItem", "updatePlaylistItemPosition"} /\ last.status = "true"
    /\ pending.last.op \in {"removeItem", "updatePlaylistItemPosition"}
    /\ pending.last.status = "true"
    /\ last.playlist_id = pending.last.playlist_id
    /\ ~Contiguous(playlist_items)

\* ------------------------------------------------------- ledger properties
\* the segment files among the inputs of a concatenation, in the order given
SegmentInputs(inputFiles) ==
    SelectSeq(inputFiles, LAMBDA f : f \notin {IntroPath, OutroPath})

\* C23 (the ledger records what was consumed, in order): the source list of
\* every ledger row an assembly operation creates is the sequence of segment ids
\* in the order their files were handed to the concatenation, intro and outro
\* left out.
C23_RecordedOrder ==
    [][(inv.pc = "recording" /\ inv'.pc = "idle" /\ pending' = pending)
       => \E row \in merged_audio_files' \ merged_audio_files :
             [k \in 1..Len(JsonParse(row.source_files)) |->
                 SegPath(JsonParse(row.source_files)[k])]
               = SegmentInputs(inv.inputFiles)]_vars

\* C24 (processed by any run): a segment listed by a ledger row, whichever
\* assembly operation created the row, is not in the set a later mergeUnprocessed
\* resolves while the row exists, and so is in no row it creates.
C24_ProcessedByAnyRun ==
    (inv.pc # "idle" /\ inv.op \in MergeUnprocessedOps)
       => Range(inv.ids) \cap LedgerIds(inv.ledger0) = {}

\* what the call that has just returned or started resolved as unprocessed
Resolved == IF inv'.pc = "idle" THEN {} ELSE Range(inv'.ids)

\* C25 (self-correcting resolver): after a ledger row was deleted or its source
\* list edited, the next mergeUnprocessedAudioFiles resolves every segment that
\* thereby is in no remaining row and no segment that a remaining row still
\* lists; nothing but the ledger row had to change.
C25_SelfCorrecting ==
    [][(/\ last.op \in {"mergedAudioFile.update", "mergedAudioFile.delete"}
        /\ last.status = "true"
        /\ inv.pc = "idle" /\ last'.op = "mergeUnprocessedAudioFiles")
       => /\ Range(last.ids) \cap TrulyUnprocessed \subseteq Resolved
          /\ Resolved \cap LedgerIds(merged_audio_files) = {}]_vars

\* C26 (crash between file write and ledger insert): when an assembly
\* invocation stops with its output file written and its row not inserted, the
\* ledger is as it was and the file stays on disk with no row naming it; the
\* segments it consumed that no ledger row lists are resolved by the next
\* mergeUnprocessedAudioFiles, which on success records each of them in its one
\* new row.
C26_BenignLeak ==
    [][/\ (inv.pc = "recording" /\ last'.status = "crashed")
            => /\ merged_audio_files' = merged_audio_files
               /\ \E f \in outFiles' :
                     /\ f.path = inv.outputPath /\ f.state = "complete"
                     /\ \A m \in merged_audio_files' : m.file_path # f.path
       /\ (/\ last.status = "crashed" /\ inv.pc = "idle"
           /\ last'.op = "mergeUnprocessedAudioFiles")
            => /\ Range(last.ids) \ LedgerIds(merged_audio_files) \subseteq Resolved
               /\ \A f \in outFiles : f.path = last.from => f \in outFiles'
       /\ (inv.pc = "recording" /\ inv.op = "mergeUnprocessedAudioFiles"
              /\ last'.status = "success")
            => \A id \in Range(inv.ids) :
                  Cardinality({m \in merged_audio_files' :
                                  id \in Range(JsonParse(m.source_files))}) = 1]_vars

\* C27 (moveItem clamps its target): a successful updatePlaylistItemPosition on
\* an item of a playlist with N items moves it to newPosition clamped into
\* [1, N] (1 when below 1, N when above N), leaves the positions of the
\* playlist exactly 1..N, and changes no row when the clamped position is the
\* item's current one.
Clamped(newPosition, n) ==
    IF newPosition < 1 THEN 1 ELSE IF newPosition > n THEN n ELSE newPosition

C27_ClampedMove ==
    [][(/\ inv.pc = "idle"
        /\ last'.op = "updatePlaylistItemPosition"
        /\ last'.status = "true")
       => LET pl == last'.playlist_id
              n  == Cardinality(ItemsOf(playlist_items, pl))
              t  == Clamped(last'.position, n)
          IN  /\ Cardinality(ItemsOf(playlist_items', pl)) = n
              /\ {i.position : i \in ItemsOf(playlist_items', pl)} = 1..n
              /\ \A i \in ItemById(playlist_items', last'.id) : i.position = t
              /\ ItemById(playlist_items', last'.id) # {}
              /\ t = last'.from => playlist_items' = playlist_items]_vars

C27_Witness ==
    /\ last.op = "updatePlaylistItemPosition"
    /\ last.status = "true"
    /\ Cardinality(ItemsOf(playlist_items, last.playlist_id)) = MaxItems
    /\ last.position > MaxItems
    /\ last.from = 1
    /\ \E i \in ItemById(playlist_items, last.id) : i.position = MaxItems

\* C28 (out-of-range position rejected by the service): reorderPlaylistItem
\* returns an error and changes no playlist item when newPosition is below 1
\* or above the number of items of the playlist, when the playlist does not
\* exist, and when the segment is not in the playlist.
C28_ReorderRejects ==
    [][(/\ inv.pc = "idle"
        /\ last'.op = "reorderPlaylistItem"
        /\ LET pl == last'.playlist_id
               af == last'.audio_file_id
           IN  \/ PlaylistById(playlists, pl) = {}
               \/ FindPlaylistItem(playlist_items, pl, af) = {}
               \/ last'.position < 1
               \/ last'.position > Cardinality(ItemsOf(playlist_items, pl)))
       => /\ last'.status = "error"
          /\ playlist_items' = playlist_items
          /\ playlists' = playlists]_vars

C28_Witness ==
    /\ last.op = "reorderPlaylistItem"
    /\ last.status = "error"
    /\ last.id # 0
    /\ Cardinality(ItemsOf(playlist_items, last.playlist_id)) >= 2
    /\ last.position > Cardinality(ItemsOf(playlist_items, last.playlist_id))

\* C29 (service reorder equals a single move): a successful reorderPlaylistItem
\* of a member item to a target position in 1..N other than its current one
\* leaves the rows that one updatePlaylistItemPosition(item, target) would
\* leave, and the positions of the playlist are 1..N afterwards.
C29_ReorderIsOneMove ==
    [][(/\ inv.pc = "idle"
        /\ last'.op = "reorderPlaylistItem"
        /\ last'.status = "success")
       => LET pl == last'.playlist_id
              n  == Cardinality(ItemsOf(playlist_items, pl))
          IN  /\ playlist_items' = MoveRows(playlist_items, last'.id, last'.position)
              /\ {i.position : i \in ItemsOf(playlist_items', pl)} = 1..n
              /\ Cardinality(ItemsOf(playlist_items', pl)) = n]_vars
C29_Witness ==
    /\ last.op = "reorderPlaylistItem"
    /\ last.status = "success"
    /\ Cardinality(ItemsOf(playlist_items, last.playlist_id)) = MaxItems
    /\ last.from = MaxItems
    /\ last.position = 1
    /\ \E i \in ItemById(playlist_items, last.id) : i.position = 1

\* C30 (no segment merged twice by successive runs): with only
\* mergeUnprocessedAudioFiles writing the ledger, segments only added and no row
\* deleted, the source lists of any two ledger rows are disjoint, and a run
\* that finds nothing to merge leaves no segment unrecorded, whatever the
\* number of segments and of ledger rows.
C30_DisjointRuns ==
    /\ \A m1, m2 \in merged_audio_files :
          m1.id # m2.id
             => Range(JsonParse(m1.source_files))
                   \cap Range(JsonParse(m2.source_files)) = {}
    /\ (/\ inv.pc = "idle"
        /\ last.op = "mergeUnprocessedAudioFiles"
        /\ last.status = "skipped")
          => \A r \in audio_files :
                \E m \in merged_audio_files : r.id \in Range(JsonParse(m.source_files))

====
